---- MODULE Spec2Model ----
(***************************************************************************)
(* DocuVerse worker: one document-ingestion task (process_document ->      *)
(* DocumentIngestor.ingest) with its ProgressManager, the hierarchical     *)
(* chunker and vector-store callbacks, and the backend status endpoint     *)
(* that handles each report the worker posts.                              *)
(*                                                                         *)
(* Percentages are Python floats in the source.  They are kept here as     *)
(* exact fractions [n, d] in lowest terms; the stage weights are kept in   *)
(* hundredths (0.2 -> 20).  The float sums of the source that matter       *)
(* (0.2+0.3+0.3+0.2 = 1.0, 0.2+0.2 = 0.4, ...) are exact in IEEE doubles.   *)
(***************************************************************************)
EXTENDS Integers, Sequences, FiniteSets, TLC

VARIABLES
    pc,        \* position of the worker inside process_document / ingest
    ext,       \* suffix of self.file_path
    pm,        \* the ProgressManager object
    reports,   \* every JSON body the worker POSTed to /worker/status, in order
    ck,        \* local state of CustomHierarchicalNodeParser.get_nodes_from_documents
    ret,       \* who called the chunker: "llmsherpa", "llama_index" or "pipeline"
    nodes,     \* `nodes` of DocumentIngestor.ingest
    embedded,  \* `embedded_nodes` of DocumentIngestor.ingest (pipeline.run output)
    vs,        \* local state of CustomPineconeVectorStore.add
    vectors,   \* ids held by the vector index for this document
    backend,   \* the backend's document record and chunks collection
    exc,       \* the exception being propagated ("" when none)
    result,    \* what ingest() did: nothing yet, returned n, or raised
    dropped,   \* history: a report of the completion sequence (chunk payload,
               \* final progress, final status) was not handled by the backend,
               \* or the backend failed to save its chunks
    hb,        \* the hierarchy builder: the parsed blocks, their groups and
               \* the documents _create_hierarchical_chunks makes of them
    md,        \* one call of _filter_metadata_for_chunking: its argument, the
               \* chunk sizes in force and the dictionary it returns
    rq,        \* one retrieval of EnhancedVectorStoreService: its arguments,
               \* its position and what it has computed so far
    qa,        \* one run of QAGraphService.process_query: the AgentState, the
               \* stage it is at and what it returned
    dl,        \* one deletion of a document: the worker's
               \* delete_document_vectors, the vector index and the backend
    be,        \* one request to POST /worker/status: the update, the calls
               \* receive_worker_status has made and its answer
    rl,        \* one run of the chunker over documents that carry metadata:
               \* the filtered documents and the nodes with their metadata
    dr,        \* one DELETE request for a document: the endpoint, the worker's
               \* delete task, the vector index and the backend's record
    cv,        \* one conversation session and the enhanced queries being
               \* handled on it
    cc         \* an ingestion and a deletion of the same document running
               \* at the same time, the vector index and the backend

\* the variables of the components that are exercised on their own
others == <<hb, md, rq, qa, dl, be, rl, dr, cv, cc>>

\* the variables of one ingestion task
task == <<pc, ext, pm, reports, ck, ret, nodes, embedded, vs, vectors, backend, exc,
          result, dropped>>

vars == <<pc, ext, pm, reports, ck, ret, nodes, embedded, vs, vectors, backend, exc,
          result, dropped, others>>

-----------------------------------------------------------------------------
(* Bounds of the model *)

\* most documents (parsed blocks, reader documents) of one file
MaxDocs == 2
\* longest text of one document, in units of the smallest chunk size
MaxLen == 2
\* most blocks handed to the hierarchy builder
MaxBlocks == 3
\* highest level a caller passes to _recursively_get_nodes_from_nodes
MaxLevel == 4
\* most turns of a conversation history
MaxTurns == 5
\* most vectors the index holds for a query
MaxCands == 3
\* largest top_k of a retrieval
MaxTopK == 3
\* largest max_context_length of get_context_for_qa, in characters
MaxBudget == 5

-----------------------------------------------------------------------------
(* Exact fractions *)

RECURSIVE GCD(_, _)
GCD(a, b) == IF b = 0 THEN a ELSE GCD(b, a % b)

Frac(n, d) == LET g == GCD(n, d) IN [n |-> n \div g, d |-> d \div g]

Zero == Frac(0, 1)
Hundred == Frac(100, 1)

FracLeq(x, y) == x.n * y.d <= y.n * x.d

\* the elements of a sequence
Range(q) == {q[k] : k \in 1..Len(q)}

-----------------------------------------------------------------------------
(* ProgressManager *)

Stages == <<"parsing", "chunking", "embedding", "storage">>
StageNames == {Stages[i] : i \in 1..Len(Stages)}

\* self.stage_weights, in hundredths
stage_weights == [s \in StageNames |->
    CASE s = "parsing" -> 20
      [] s = "chunking" -> 30
      [] s = "embedding" -> 30
      [] s = "storage" -> 20]

\* ProgressManager.__init__
NewProgressManager == [
    task_id |-> "task-1",
    document_id |-> "doc-1",
    current_stage |-> "initialized",
    stage_progress |-> Zero,
    total_progress |-> Zero,
    stage_start_times |-> {}]

RECURSIVE SumWeights(_)
SumWeights(S) ==
    IF S = {} THEN 0
    ELSE LET s == CHOOSE x \in S : TRUE IN stage_weights[s] + SumWeights(S \ {s})

\* _update_total_progress counting every started stage, the current one
\* included, with its full weight
UpdateTotalProgressFullWeight(p) ==
    Frac(SumWeights(p.stage_start_times \cap StageNames), 1)
\* ProgressManager._update_total_progress: the new total_progress
UpdateTotalProgress(p) ==
    LET started == p.stage_start_times \cap StageNames
        full == SumWeights(started \ {p.current_stage})
        w == IF p.current_stage \in started THEN stage_weights[p.current_stage] ELSE 0
        sp == p.stage_progress
    IN Frac(full * 100 * sp.d + w * sp.n, 100 * sp.d)

\* the JSON body built by ProgressManager._send_progress_update
ProgressData(p, message, current, total, stage) == [
    kind |-> "progress",
    task_id |-> p.task_id,
    document_id |-> p.document_id,
    status |-> "processing",
    progress |-> IF total > 0 THEN (current * 100) \div total ELSE 0,
    stage |-> stage,
    message |-> message,
    current |-> current,
    total |-> total,
    stage_progress |-> p.stage_progress,
    total_progress |-> p.total_progress,
    chunks |-> <<>>,
    error |-> "None",
    at_stage |-> p.current_stage,
    started |-> p.stage_start_times]

\* the JSON body built by ProgressManager.report_status_to_backend
StatusPayload(p, status, chunks, error) == [
    kind |-> "status",
    task_id |-> p.task_id,
    document_id |-> p.document_id,
    status |-> status,
    progress |-> IF status = "completed" THEN 100 ELSE 0,
    stage |-> IF status = "completed" THEN "completed"
              ELSE IF status = "failed" THEN "failed" ELSE "processing",
    message |-> "Document processing",
    current |-> IF status \in {"completed", "failed"} THEN 1 ELSE 0,
    total |-> IF status \in {"completed", "failed"} THEN 1 ELSE 0,
    stage_progress |-> p.stage_progress,
    total_progress |-> p.total_progress,
    chunks |-> chunks,
    error |-> error,
    at_stage |-> p.current_stage,
    started |-> p.stage_start_times]

\* ProgressManager.start_stage: the object afterwards, and the report it sends
StartStageState(p, stage_name) ==
    [p EXCEPT !.current_stage = stage_name,
              !.stage_progress = Zero,
              !.stage_start_times = @ \cup {stage_name}]
StartStageReport(p, stage_name) ==
    ProgressData(StartStageState(p, stage_name), "Started", 0, 100, stage_name)

\* update_stage_progress setting stage_progress to 0 when total is 0
UpdateStageStateZeroing(p, current, total) ==
    LET q == [p EXCEPT !.stage_progress =
                          IF total > 0 THEN Frac(current * 100, total) ELSE Zero]
    IN [q EXCEPT !.total_progress = UpdateTotalProgress(q)]
\* ProgressManager.update_stage_progress
UpdateStageState(p, current, total) ==
    IF total > 0
    THEN LET q == [p EXCEPT !.stage_progress = Frac(current * 100, total)]
         IN [q EXCEPT !.total_progress = UpdateTotalProgress(q)]
    ELSE p
UpdateStageReport(p, message, current, total) ==
    ProgressData(UpdateStageState(p, current, total), message, current, total,
                 p.current_stage)

\* ProgressManager.complete_stage
CompleteStageState(p, stage_name) ==
    LET q == [p EXCEPT !.stage_progress = Hundred]
    IN [q EXCEPT !.total_progress = UpdateTotalProgress(q)]
CompleteStageReport(p, stage_name) ==
    ProgressData(CompleteStageState(p, stage_name), "Completed", 100, 100, stage_name)

\* send_final_progress_update whose progress report is at 0 of 1 for a failure
FinalReportsZeroOnFailure(p, status, chunks, error) == <<
    ProgressData(p, "Document processing", IF status = "completed" THEN 1 ELSE 0, 1,
                 IF status = "completed" THEN "completed" ELSE "failed"),
    StatusPayload(p, status, chunks, error) >>
\* ProgressManager.send_final_progress_update: the two reports, in order
FinalReports(p, status, chunks, error) == <<
    ProgressData(p, "Document processing", 1, 1,
                 IF status = "completed" THEN "completed" ELSE "failed"),
    StatusPayload(p, status, chunks, error) >>

-----------------------------------------------------------------------------
(* Backend: POST /worker/status *)

\* Document record created by the upload route, before the task runs
NewBackend == [
    exists |-> TRUE,
    status |-> "PENDING",
    chunks_count |-> 0,
    error_message |-> "None",
    chunks |-> <<>>]

\* the status_mapping of receive_worker_status (operation_type "processing")
BackendStatus(status) ==
    CASE status = "completed" -> "COMPLETED"
      [] status = "failed" -> "FAILED"
      [] status = "processing" -> "PROCESSING"
      [] status = "pending" -> "PENDING"
      [] OTHER -> "PROCESSING"

\* DocumentService.update_document_status: update_one on the document's _id
UpdateDocumentStatus(b, status, chunks_count, error) ==
    IF b.exists
    THEN [b EXCEPT !.status = status,
                   !.chunks_count = chunks_count,
                   !.error_message = IF error # "None" THEN error ELSE @]
    ELSE b

\* DocumentService.save_chunks: insert_many into the chunks collection
SaveChunks(b, chunks) == [b EXCEPT !.chunks = @ \o chunks]

\* receive_worker_status for one report of a processing task; save_ok tells
\* whether save_chunks succeeded (its failure is logged and swallowed)
ReceiveWorkerStatus(b, update, save_ok) ==
    LET b1 == UpdateDocumentStatus(b, BackendStatus(update.status),
                                   Len(update.chunks), update.error)
    IN IF update.status = "completed" /\ update.chunks # <<>> /\ save_ok
       THEN SaveChunks(b1, update.chunks)
       ELSE b1

\* what one requests.post to /worker/status did at the backend: the report
\* was handled (whatever answer the worker then saw), or it was not (connection
\* error, rejected request)
Delivered(b, r, handled, save_ok) ==
    IF handled THEN ReceiveWorkerStatus(b, r, save_ok) ELSE b

SaveOutcomes(r) ==
    IF r.status = "completed" /\ r.chunks # <<>> THEN BOOLEAN ELSE {TRUE}

\* one report posted by the ProgressManager, which logs and ignores the answer
\* and any exception
Post(r) ==
    \E handled \in BOOLEAN, ok \in SaveOutcomes(r) :
        /\ reports' = Append(reports, r)
        /\ backend' = Delivered(backend, r, handled, ok)

\* two reports posted by the ProgressManager one after the other
PostBoth(rs) ==
    \E h1 \in BOOLEAN, h2 \in BOOLEAN, ok \in SaveOutcomes(rs[2]) :
        /\ reports' = reports \o rs
        /\ backend' = Delivered(Delivered(backend, rs[1], h1, TRUE), rs[2], h2, ok)

-----------------------------------------------------------------------------
(* Chunker: CustomHierarchicalNodeParser *)

\* chunk_sizes=[4096, 2048, 1024] passed by DocumentIngestor.__init__, in units
\* of the smallest one; one splitter per entry
chunk_sizes == <<4, 2, 1>>
NumLevels == Len(chunk_sizes)

\* node_parser.get_nodes_from_documents([node]) of the splitter with chunk
\* size `size`, as the sizes of the chunks it returns for a text of `len`
\* units: full chunks, then the rest; nothing for an empty text
SplitSizes(len, size) ==
    [k \in 1..((len + size - 1) \div size) |->
        IF k * size <= len THEN size ELSE len - (k - 1) * size]

\* the texts the parser or reader may hand over: up to MaxDocs documents of
\* 0..MaxLen units each
DocumentLists == UNION {[1..n -> 0..MaxLen] : n \in 0..MaxDocs}

\* the blocks parse_document may return for a .pdf: it drops a block whose
\* content is blank, so every block has text
BlockTexts == UNION {[1..n -> 1..MaxLen] : n \in 0..MaxDocs}

\* the chunker's locals when get_nodes_from_documents is entered
ChunkerEntry(documents) == [
    docs |-> documents, \* text sizes of `documents`
    di |-> 0,           \* documents taken so far
    entry |-> 0,        \* level its caller entered the recursion with
    level |-> 0,        \* level of the running _recursively_get_nodes_from_nodes
    queue |-> <<>>,     \* its `nodes` as [id, size]; id 0 is the document itself
    qi |-> 0,           \* nodes of it taken so far
    subs |-> <<>>,      \* its `sub_nodes` as [id, size]
    out |-> <<>>]       \* all_nodes plus the sub-nodes of the running document

ChunkerIdle == ChunkerEntry(<<>>)

\* sub-nodes that are never given a parent
NewNodesUnlinked(first, sizes, level, parent, origin) ==
    [k \in 1..Len(sizes) |-> [id |-> first + k - 1, size |-> sizes[k], level |-> level,
                              parent |-> 0, children |-> <<>>, origin |-> origin]]
\* the sub-nodes the splitter of `level` returns for node `parent` of input
\* document `origin`, the first of them getting id `first`; the parent is
\* attached by _add_enhanced_relationships when level > 0
NewNodes(first, sizes, level, parent, origin) ==
    [k \in 1..Len(sizes) |-> [id |-> first + k - 1,
                              size |-> sizes[k],
                              level |-> level,
                              parent |-> IF level > 0 THEN parent ELSE 0,
                              children |-> <<>>,
                              origin |-> origin]]

\* _add_parent_child_relationship for each sub-node of `new`: the parent, node
\* `parent` of `out`, gets them appended to its children; nothing at level 0
AddChildren(out, parent, level, new) ==
    IF level > 0 /\ Len(new) > 0 /\ parent \in 1..Len(out)
    THEN [out EXCEPT ![parent].children = @ \o [k \in 1..Len(new) |-> new[k].id]]
    ELSE out

-----------------------------------------------------------------------------
(* Components exercised on their own are idle while a task runs *)

HbIdle == [step |-> "idle"]
MdIdle == [step |-> "idle"]
RqIdle == [step |-> "idle"]
QaIdle == [step |-> "idle"]
DlIdle == [step |-> "idle"]
BeIdle == [step |-> "idle"]
RlIdle == [step |-> "idle"]
DrIdle == [step |-> "idle"]
CvIdle == [step |-> "idle"]
CcIdle == [step |-> "idle"]
OthersIdle ==
    /\ hb = HbIdle /\ md = MdIdle /\ rq = RqIdle /\ qa = QaIdle /\ dl = DlIdle /\ be = BeIdle
    /\ rl = RlIdle /\ dr = DrIdle /\ cv = CvIdle /\ cc = CcIdle

-----------------------------------------------------------------------------
(* The task *)

Extensions == {".pdf", ".csv", ".xlsx"}

\* LLMSherpaParser.is_supported
is_supported(e) ==
    e \in {".pdf", ".html", ".htm", ".docx", ".doc", ".ppt", ".pptx", ".md", ".markdown"}

\* keys of DocumentIngestor.llama_readers
llama_readers == {".png", ".jpg", ".jpeg", ".csv"}

Init ==
    /\ pc = "process_document"
    /\ ext \in Extensions
    /\ pm = NewProgressManager
    /\ reports = <<>>
    /\ ck = ChunkerIdle
    /\ ret = "none"
    /\ nodes = <<>>
    /\ embedded = <<>>
    /\ vs = [n |-> 0, i |-> 0]
    /\ vectors = {}
    /\ backend = NewBackend
    /\ exc = ""
    /\ result = [kind |-> "none", n |-> 0]
    /\ dropped = FALSE
    /\ OthersIdle

\* process_document: the initial "processing" report, then the ingestor is built
ProcessDocument ==
    /\ pc = "process_document"
    /\ Post(StatusPayload(pm, "processing", <<>>, "None"))
    /\ pc' = "ingest"
    /\ UNCHANGED <<others, ext, pm, ck, ret, nodes, embedded, vs, vectors, exc, result, dropped>>

\* process_document: the initial "processing" report, then the constructor of
\* DocumentIngestor raises (the vector store cannot reach its index); the
\* except clause of process_document logs and returns, ingest is never called
ProcessDocumentRaises ==
    /\ pc = "process_document"
    /\ Post(StatusPayload(pm, "processing", <<>>, "None"))
    /\ exc' = "InitError"
    /\ result' = [kind |-> "not_called", n |-> 0]
    /\ pc' = "done"
    /\ UNCHANGED <<others, ext, pm, ck, ret, nodes, embedded, vs, vectors, dropped>>

\* ingest: start_stage("parsing") and the format dispatch
IngestStart ==
    /\ pc = "ingest"
    /\ pm' = StartStageState(pm, "parsing")
    /\ Post(StartStageReport(pm, "parsing"))
    /\ pc' = IF is_supported(ext) THEN "llmsherpa_begin" ELSE "llama_load"
    /\ UNCHANGED <<others, ext, ck, ret, nodes, embedded, vs, vectors, exc, result, dropped>>

\* _ingest_with_llmsherpa: update_stage_progress("Parsing document ...", 0, 1)
LlmsherpaBegin ==
    /\ pc = "llmsherpa_begin"
    /\ pm' = UpdateStageState(pm, 0, 1)
    /\ Post(UpdateStageReport(pm, "Parsing document with LLMSherpa", 0, 1))
    /\ pc' = "llmsherpa_parse"
    /\ UNCHANGED <<others, ext, ck, ret, nodes, embedded, vs, vectors, exc, result, dropped>>

\* _ingest_with_llmsherpa: parse_document returns the blocks, then
\* update_stage_progress("Parsed n blocks", 1, 1)
LlmsherpaParsed ==
    /\ pc = "llmsherpa_parse"
    /\ \E blocks \in BlockTexts : ck' = ChunkerEntry(blocks)
    /\ pm' = UpdateStageState(pm, 1, 1)
    /\ Post(UpdateStageReport(pm, "Parsed blocks", 1, 1))
    /\ pc' = "llmsherpa_chunking"
    /\ UNCHANGED <<others, ext, ret, nodes, embedded, vs, vectors, exc, result, dropped>>

\* _ingest_with_llmsherpa: parse_document raises
LlmsherpaParseRaises ==
    /\ pc = "llmsherpa_parse"
    /\ exc' = "ParseError"
    /\ pc' = "llmsherpa_except"
    /\ UNCHANGED <<others, ext, pm, reports, ck, ret, nodes, embedded, vs, vectors, backend, result, dropped>>

\* _ingest_with_llmsherpa: start_stage("chunking"), then the hierarchy builder
\* makes one document per block
LlmsherpaChunking ==
    /\ pc = "llmsherpa_chunking"
    /\ pm' = StartStageState(pm, "chunking")
    /\ Post(StartStageReport(pm, "chunking"))
    /\ pc' = "llmsherpa_chunked"
    /\ UNCHANGED <<others, ext, ck, ret, nodes, embedded, vs, vectors, exc, result, dropped>>

\* _ingest_with_llmsherpa: complete_stage("chunking")
LlmsherpaChunked ==
    /\ pc = "llmsherpa_chunked"
    /\ pm' = CompleteStageState(pm, "chunking")
    /\ Post(CompleteStageReport(pm, "chunking"))
    /\ pc' = "llmsherpa_embedding"
    /\ UNCHANGED <<others, ext, ck, ret, nodes, embedded, vs, vectors, exc, result, dropped>>

\* _ingest_with_llmsherpa: start_stage("embedding"), then the chunker is called
LlmsherpaEmbedding ==
    /\ pc = "llmsherpa_embedding"
    /\ pm' = StartStageState(pm, "embedding")
    /\ Post(StartStageReport(pm, "embedding"))
    /\ ret' = "llmsherpa"
    /\ pc' = "ck_start"
    /\ UNCHANGED <<others, ext, ck, nodes, embedded, vs, vectors, exc, result, dropped>>

\* _ingest_with_llmsherpa: complete_stage("embedding") and return nodes
LlmsherpaEmbedded ==
    /\ pc = "llmsherpa_embedded"
    /\ pm' = CompleteStageState(pm, "embedding")
    /\ Post(CompleteStageReport(pm, "embedding"))
    /\ nodes' = ck.out
    /\ pc' = "parsed"
    /\ UNCHANGED <<others, ext, ck, ret, embedded, vs, vectors, exc, result, dropped>>

\* _ingest_with_llmsherpa: its except clause reports "failed" and re-raises
LlmsherpaExcept ==
    /\ pc = "llmsherpa_except"
    /\ PostBoth(FinalReports(pm, "failed", <<>>, "LLMSherpa ingestion failed: " \o exc))
    /\ pc' = "ingest_except"
    /\ UNCHANGED <<others, ext, pm, ck, ret, nodes, embedded, vs, vectors, exc, result, dropped>>

\* _ingest_with_llama_index: the reader loads the file, then the chunker is called
LlamaLoad ==
    /\ pc = "llama_load"
    /\ ext \in llama_readers
    /\ \E docs \in DocumentLists : ck' = ChunkerEntry(docs)
    /\ ret' = "llama_index"
    /\ pc' = "ck_start"
    /\ UNCHANGED <<others, ext, pm, reports, nodes, embedded, vs, vectors, backend, exc, result, dropped>>

\* _ingest_with_llama_index: _get_llama_reader raises for an extension without
\* a reader, or load_data raises
LlamaLoadRaises ==
    /\ pc = "llama_load"
    /\ exc' = IF ext \in llama_readers THEN "ReadError" ELSE "Unsupported file type"
    /\ pc' = "ingest_except"
    /\ UNCHANGED <<others, ext, pm, reports, ck, ret, nodes, embedded, vs, vectors, backend, result, dropped>>

\* where an exception goes that leaves the chunker or the pipeline
Handler == IF ret = "llmsherpa" THEN "llmsherpa_except" ELSE "ingest_except"

\* get_nodes_from_documents: "Starting document processing", 0, len(documents)
ChunkerStart ==
    /\ pc = "ck_start"
    /\ pm' = UpdateStageState(pm, 0, Len(ck.docs))
    /\ Post(UpdateStageReport(pm, "Starting document processing", 0, Len(ck.docs)))
    /\ pc' = IF Len(ck.docs) > 0 THEN "ck_doc" ELSE "ck_end"
    /\ UNCHANGED <<others, ext, ck, ret, nodes, embedded, vs, vectors, exc, result, dropped>>

\* get_nodes_from_documents: "Processing document i+1/n", then the recursion
\* is entered with [doc] at level 0
ChunkerDocument ==
    /\ pc = "ck_doc"
    /\ pm' = UpdateStageState(pm, ck.di + 1, Len(ck.docs))
    /\ Post(UpdateStageReport(pm, "Processing document", ck.di + 1, Len(ck.docs)))
    /\ ck' = [ck EXCEPT !.di = @ + 1, !.level = 0,
                        !.queue = <<[id |-> 0, size |-> ck.docs[ck.di + 1]]>>,
                        !.qi = 0, !.subs = <<>>]
    /\ pc' = "ck_level"
    /\ UNCHANGED <<others, ext, ret, nodes, embedded, vs, vectors, exc, result, dropped>>

\* _recursively_get_nodes_from_nodes using the last splitter for a level
\* beyond the configured ones
ChunkerLevelClamped ==
    /\ pc = "ck_level"
    /\ pm' = UpdateStageState(pm, 0, Len(ck.queue))
    /\ Post(UpdateStageReport(pm, "Processing level nodes", 0, Len(ck.queue)))
    /\ ck' = [ck EXCEPT !.level = IF @ < NumLevels THEN @ ELSE NumLevels - 1]
    /\ pc' = IF Len(ck.queue) > 0 THEN "ck_node" ELSE "ck_recurse"
    /\ UNCHANGED <<others, ext, ret, nodes, embedded, vs, vectors, exc, result, dropped>>
\* _recursively_get_nodes_from_nodes: the level check, then
\* "Processing level L nodes", 0, len(nodes)
ChunkerLevel ==
    /\ pc = "ck_level"
    /\ ck.level < NumLevels
    /\ pm' = UpdateStageState(pm, 0, Len(ck.queue))
    /\ Post(UpdateStageReport(pm, "Processing level nodes", 0, Len(ck.queue)))
    /\ pc' = IF Len(ck.queue) > 0 THEN "ck_node" ELSE "ck_recurse"
    /\ UNCHANGED <<others, ext, ck, ret, nodes, embedded, vs, vectors, exc, result, dropped>>

\* _recursively_get_nodes_from_nodes: the level check fails and ValueError is
\* raised (no step of Spec enables it: get_nodes_from_documents enters at level
\* 0 and the recursion stops at the last splitter)
ChunkerLevelRaises ==
    /\ pc = "ck_level"
    /\ ck.level >= NumLevels
    /\ exc' = "ValueError"
    /\ pc' = Handler
    /\ UNCHANGED <<others, ext, pm, reports, ck, ret, nodes, embedded, vs, vectors, backend, result, dropped>>

\* _recursively_get_nodes_from_nodes, one turn of the loop:
\* "Processing level L node i+1/n", then the level's splitter splits the node
\* into sub-nodes, each linked to the node when L > 0
ChunkerNode ==
    /\ pc = "ck_node"
    /\ pm' = UpdateStageState(pm, ck.qi + 1, Len(ck.queue))
    /\ Post(UpdateStageReport(pm, "Processing level node", ck.qi + 1, Len(ck.queue)))
    /\ LET node == ck.queue[ck.qi + 1]
           new == NewNodes(Len(ck.out) + 1, SplitSizes(node.size, chunk_sizes[ck.level + 1]),
                           ck.level, node.id, ck.di)
       IN ck' = [ck EXCEPT !.qi = @ + 1,
                           !.subs = @ \o [k \in 1..Len(new) |->
                                             [id |-> new[k].id, size |-> new[k].size]],
                           !.out = AddChildren(@, node.id, ck.level, new) \o new]
    /\ pc' = IF ck.qi + 1 < Len(ck.queue) THEN "ck_node" ELSE "ck_recurse"
    /\ UNCHANGED <<others, ext, ret, nodes, embedded, vs, vectors, exc, result, dropped>>

\* _recursively_get_nodes_from_nodes, one turn of the loop in which the
\* splitter raises after the progress update
ChunkerNodeRaises ==
    /\ pc = "ck_node"
    /\ pm' = UpdateStageState(pm, ck.qi + 1, Len(ck.queue))
    /\ Post(UpdateStageReport(pm, "Processing level node", ck.qi + 1, Len(ck.queue)))
    /\ exc' = "SplitError"
    /\ pc' = Handler
    /\ UNCHANGED <<others, ext, ck, ret, nodes, embedded, vs, vectors, result, dropped>>

\* the recursion stopping one level before the last splitter
ChunkerRecurseStopsEarly ==
    /\ pc = "ck_recurse"
    /\ IF ck.level < NumLevels - 2
       THEN /\ ck' = [ck EXCEPT !.level = @ + 1, !.queue = ck.subs,
                                !.qi = 0, !.subs = <<>>]
            /\ pc' = "ck_level"
       ELSE /\ ck' = ck
            /\ pc' = IF ret = "direct" THEN "returned"
                     ELSE IF ck.di < Len(ck.docs) THEN "ck_doc" ELSE "ck_end"
    /\ UNCHANGED <<others, ext, pm, reports, ret, nodes, embedded, vs, vectors, backend, exc, result, dropped>>
\* _recursively_get_nodes_from_nodes after its loop: recurse into the next
\* level with sub_nodes, or return to get_nodes_from_documents
ChunkerRecurse ==
    /\ pc = "ck_recurse"
    /\ IF ck.level < NumLevels - 1
       THEN /\ ck' = [ck EXCEPT !.level = @ + 1, !.queue = ck.subs,
                                !.qi = 0, !.subs = <<>>]
            /\ pc' = "ck_level"
       ELSE /\ ck' = ck
            /\ pc' = IF ret = "direct" THEN "returned"
                     ELSE IF ck.di < Len(ck.docs) THEN "ck_doc" ELSE "ck_end"
    /\ UNCHANGED <<others, ext, pm, reports, ret, nodes, embedded, vs, vectors, backend, exc, result, dropped>>

\* get_nodes_from_documents: "Completed processing n documents", n, n and
\* return all_nodes to the caller
ChunkerEnd ==
    /\ pc = "ck_end"
    /\ pm' = UpdateStageState(pm, Len(ck.docs), Len(ck.docs))
    /\ Post(UpdateStageReport(pm, "Completed processing documents", Len(ck.docs), Len(ck.docs)))
    /\ nodes' = IF ret = "llama_index" THEN ck.out ELSE nodes
    /\ pc' = CASE ret = "llmsherpa" -> "llmsherpa_embedded"
               [] ret = "llama_index" -> "parsed"
               [] OTHER -> "pipeline_embed"
    /\ UNCHANGED <<others, ext, ck, ret, embedded, vs, vectors, exc, result, dropped>>

\* ingest: complete_stage("parsing"); node ids and chunk_index are set
IngestParsed ==
    /\ pc = "parsed"
    /\ pm' = CompleteStageState(pm, "parsing")
    /\ Post(CompleteStageReport(pm, "parsing"))
    /\ pc' = "storage"
    /\ UNCHANGED <<others, ext, ck, ret, nodes, embedded, vs, vectors, exc, result, dropped>>

\* ingest: start_stage("storage"); pipeline.run(nodes) first applies the
\* chunker, its first transformation, to the nodes
IngestStorage ==
    /\ pc = "storage"
    /\ pm' = StartStageState(pm, "storage")
    /\ Post(StartStageReport(pm, "storage"))
    /\ ck' = ChunkerEntry([i \in 1..Len(nodes) |-> nodes[i].size])
    /\ ret' = "pipeline"
    /\ pc' = "ck_start"
    /\ UNCHANGED <<others, ext, nodes, embedded, vs, vectors, exc, result, dropped>>

\* pipeline.run: the embedding model embeds the chunker's output; the vector
\* store's add is called when there is a node to add
PipelineEmbed ==
    /\ pc = "pipeline_embed"
    /\ embedded' = ck.out
    /\ vs' = [n |-> Len(ck.out), i |-> 0]
    /\ pc' = IF Len(ck.out) > 0 THEN "vs_add" ELSE "stored"
    /\ UNCHANGED <<others, ext, pm, reports, ck, ret, nodes, vectors, backend, exc, result, dropped>>

\* pipeline.run: the embedding model raises
PipelineEmbedRaises ==
    /\ pc = "pipeline_embed"
    /\ exc' = "EmbeddingError"
    /\ pc' = "ingest_except"
    /\ UNCHANGED <<others, ext, pm, reports, ck, ret, nodes, embedded, vs, vectors, backend, result, dropped>>

\* CustomPineconeVectorStore.add: "Starting node addition to Pinecone", 0, n
VectorStoreAddStart ==
    /\ pc = "vs_add"
    /\ pm' = UpdateStageState(pm, 0, vs.n)
    /\ Post(UpdateStageReport(pm, "Starting node addition to Pinecone", 0, vs.n))
    /\ pc' = IF vs.n > 0 THEN "vs_node" ELSE "vs_upsert"
    /\ UNCHANGED <<others, ext, ck, ret, nodes, embedded, vs, vectors, exc, result, dropped>>

\* CustomPineconeVectorStore.add, one turn of the loop: "Processing node i+1/n"
VectorStoreAddNode ==
    /\ pc = "vs_node"
    /\ pm' = UpdateStageState(pm, vs.i + 1, vs.n)
    /\ Post(UpdateStageReport(pm, "Processing node", vs.i + 1, vs.n))
    /\ vs' = [vs EXCEPT !.i = @ + 1]
    /\ pc' = IF vs.i + 1 < vs.n THEN "vs_node" ELSE "vs_upsert"
    /\ UNCHANGED <<others, ext, ck, ret, nodes, embedded, vectors, exc, result, dropped>>

\* ids of the entries add() upserts, one per embedded node
EntryIds == {embedded[k].id : k \in 1..Len(embedded)}

\* CustomPineconeVectorStore.add: "Upserting to Pinecone", 0, 1
VectorStoreUpsertStart ==
    /\ pc = "vs_upsert"
    /\ pm' = UpdateStageState(pm, 0, 1)
    /\ Post(UpdateStageReport(pm, "Upserting to Pinecone", 0, 1))
    /\ pc' = "vs_upserting"
    /\ UNCHANGED <<others, ext, ck, ret, nodes, embedded, vs, vectors, exc, result, dropped>>

\* CustomPineconeVectorStore.add: the upsert, then
\* "Successfully added n nodes to Pinecone", n, n
VectorStoreUpsert ==
    /\ pc = "vs_upserting"
    /\ vectors' = vectors \cup EntryIds
    /\ pm' = UpdateStageState(pm, vs.n, vs.n)
    /\ Post(UpdateStageReport(pm, "Successfully added nodes to Pinecone", vs.n, vs.n))
    /\ pc' = "stored"
    /\ UNCHANGED <<others, ext, ck, ret, nodes, embedded, vs, exc, result, dropped>>

\* CustomPineconeVectorStore.add: the upsert raises and the index has taken
\* none of the entries
VectorStoreUpsertRaises ==
    /\ pc = "vs_upserting"
    /\ exc' = "UpsertError"
    /\ pc' = "ingest_except"
    /\ UNCHANGED <<others, ext, pm, reports, ck, ret, nodes, embedded, vs, vectors, backend, result, dropped>>

\* ingest: complete_stage("storage")
IngestStored ==
    /\ pc = "stored"
    /\ pm' = CompleteStageState(pm, "storage")
    /\ Post(CompleteStageReport(pm, "storage"))
    /\ pc' = "store_metadata"
    /\ UNCHANGED <<others, ext, ck, ret, nodes, embedded, vs, vectors, exc, result, dropped>>

\* chunks_data of _store_metadata_in_backend: chunk_index is the position
StoreChunksData ==
    [i \in 1..Len(embedded) |->
        [content |-> embedded[i].id, chunk_index |-> i - 1, document_id |-> pm.document_id]]

\* _prepare_chunks_for_completion: chunk_index is the node's metadata value,
\* which a node of the pipeline's chunker run has from the node it was split from
PrepareChunksForCompletion ==
    [i \in 1..Len(embedded) |->
        [content |-> embedded[i].id, chunk_index |-> embedded[i].origin - 1,
         document_id |-> pm.document_id]]

\* the JSON body built by _send_chunks_to_backend
ChunksPayload(chunks_data) == [
    kind |-> "chunks",
    task_id |-> "task_" \o pm.document_id,
    document_id |-> pm.document_id,
    status |-> "completed",
    chunks |-> chunks_data,
    error |-> "None"]

\* _store_metadata_in_backend and _send_chunks_to_backend: the chunk payload is
\* posted and the backend answers 200
StoreMetadata ==
    /\ pc = "store_metadata"
    /\ LET r == ChunksPayload(StoreChunksData)
       IN \E ok \in SaveOutcomes(r) :
             /\ reports' = Append(reports, r)
             /\ backend' = Delivered(backend, r, TRUE, ok)
             /\ dropped' = (dropped \/ ~ok)
    /\ pc' = "complete"
    /\ UNCHANGED <<others, ext, pm, ck, ret, nodes, embedded, vs, vectors, exc, result>>

\* _send_chunks_to_backend: the post fails or is answered with a status other
\* than 200 (the backend may have handled the report all the same, as when
\* the 30 s timeout expires); the except clause re-raises
StoreMetadataRaises ==
    /\ pc = "store_metadata"
    /\ LET r == ChunksPayload(StoreChunksData)
       IN \E handled \in BOOLEAN, ok \in SaveOutcomes(r) :
             /\ reports' = Append(reports, r)
             /\ backend' = Delivered(backend, r, handled, ok)
    /\ exc' = "Backend API error"
    /\ pc' = "ingest_except"
    /\ UNCHANGED <<others, ext, pm, ck, ret, nodes, embedded, vs, vectors, result, dropped>>

\* _store_metadata_in_backend: Path(self.file_path).stat() raises before
\* anything is sent
StoreMetadataStatRaises ==
    /\ pc = "store_metadata"
    /\ exc' = "FileNotFoundError"
    /\ pc' = "ingest_except"
    /\ UNCHANGED <<others, ext, pm, reports, ck, ret, nodes, embedded, vs, vectors, backend, result, dropped>>

\* ingest: send_final_progress_update("completed", chunks) and return len(nodes)
IngestComplete ==
    /\ pc = "complete"
    /\ LET rs == FinalReports(pm, "completed", PrepareChunksForCompletion, "None")
       IN \E h1 \in BOOLEAN, h2 \in BOOLEAN, ok \in SaveOutcomes(rs[2]) :
             /\ reports' = reports \o rs
             /\ backend' = Delivered(Delivered(backend, rs[1], h1, TRUE), rs[2], h2, ok)
             /\ dropped' = (dropped \/ ~h1 \/ ~h2 \/ ~ok)
    /\ result' = [kind |-> "returned", n |-> Len(nodes)]
    /\ pc' = "done"
    /\ UNCHANGED <<others, ext, pm, ck, ret, nodes, embedded, vs, vectors, exc>>

\* ingest: its except clause reports "failed" with str(e) and re-raises
IngestExcept ==
    /\ pc = "ingest_except"
    /\ PostBoth(FinalReports(pm, "failed", <<>>, exc))
    /\ result' = [kind |-> "raised", n |-> 0]
    /\ pc' = "done"
    /\ UNCHANGED <<others, ext, pm, ck, ret, nodes, embedded, vs, vectors, exc, dropped>>

Next ==
    \/ ProcessDocument
    \/ ProcessDocumentRaises
    \/ IngestStart
    \/ LlmsherpaBegin
    \/ LlmsherpaParsed
    \/ LlmsherpaParseRaises
    \/ LlmsherpaChunking
    \/ LlmsherpaChunked
    \/ LlmsherpaEmbedding
    \/ LlmsherpaEmbedded
    \/ LlmsherpaExcept
    \/ LlamaLoad
    \/ LlamaLoadRaises
    \/ ChunkerStart
    \/ ChunkerDocument
    \/ ChunkerLevel
    \/ ChunkerNode
    \/ ChunkerNodeRaises
    \/ ChunkerRecurse
    \/ ChunkerEnd
    \/ IngestParsed
    \/ IngestStorage
    \/ PipelineEmbed
    \/ PipelineEmbedRaises
    \/ VectorStoreAddStart
    \/ VectorStoreAddNode
    \/ VectorStoreUpsertStart
    \/ VectorStoreUpsert
    \/ VectorStoreUpsertRaises
    \/ IngestStored
    \/ StoreMetadata
    \/ StoreMetadataRaises
    \/ StoreMetadataStatRaises
    \/ IngestComplete
    \/ IngestExcept

Spec == Init /\ [][Next]_vars

\* The chunker on its own: get_nodes_from_documents called with a list of
\* documents, or _recursively_get_nodes_from_nodes called directly with a
\* list of nodes (not held in `out`, hence id 0) and any level
InitChunker ==
    /\ ext = ".pdf"
    /\ pm = NewProgressManager
    /\ reports = <<>>
    /\ nodes = <<>>
    /\ embedded = <<>>
    /\ vs = [n |-> 0, i |-> 0]
    /\ vectors = {}
    /\ backend = NewBackend
    /\ exc = ""
    /\ result = [kind |-> "none", n |-> 0]
    /\ dropped = FALSE
    /\ OthersIdle
    /\ \E docs \in DocumentLists :
          \/ /\ pc = "ck_start"
             /\ ret = "none"
             /\ ck = ChunkerEntry(docs)
          \/ /\ pc = "ck_level"
             /\ ret = "direct"
             /\ \E level \in 0..MaxLevel :
                   ck = [ChunkerIdle EXCEPT
                            !.entry = level, !.level = level,
                            !.queue = [k \in 1..Len(docs) |-> [id |-> 0, size |-> docs[k]]]]

NextChunker ==
    \/ ChunkerStart
    \/ ChunkerDocument
    \/ ChunkerLevel
    \/ ChunkerLevelRaises
    \/ ChunkerNode
    \/ ChunkerNodeRaises
    \/ ChunkerRecurse
    \/ ChunkerEnd

SpecChunker == InitChunker /\ [][NextChunker]_vars

-----------------------------------------------------------------------------
(* The hierarchy builder: _create_hierarchical_chunks on its own *)

\* nothing of a task is running
TaskIdle ==
    /\ pc = "idle"
    /\ ext = ".pdf"
    /\ pm = NewProgressManager
    /\ reports = <<>>
    /\ ck = ChunkerIdle
    /\ ret = "none"
    /\ nodes = <<>>
    /\ embedded = <<>>
    /\ vs = [n |-> 0, i |-> 0]
    /\ vectors = {}
    /\ backend = NewBackend
    /\ exc = ""
    /\ result = [kind |-> "none", n |-> 0]
    /\ dropped = FALSE

\* block_type of a parsed block: the values of _map_tag_to_block_type that
\* have a group of their own, "text" for its other values (figure, caption,
\* ..., and "section", "document" of the fallbacks), "missing" for a block
\* without the key
BlockTypes == {"header", "paragraph", "table", "list_item", "text", "missing"}
Pages == {1, 2}

\* the block lists: block_index is the position the parser counted
BlockLists ==
    UNION {{[k \in 1..n |-> [block_type |-> f[k][1], page_number |-> f[k][2],
                             block_index |-> k - 1]] :
               f \in [1..n -> BlockTypes \X Pages]} : n \in 0..MaxBlocks}

Categories == <<"headers", "paragraphs", "tables", "lists", "other">>
EmptyGroups == [c \in Range(Categories) |-> <<>>]

\* the branch of _group_blocks_by_type a block takes;
\* block.get("block_type", "other") for a block without the key
BranchOf(block) ==
    LET block_type == IF block.block_type = "missing" THEN "other" ELSE block.block_type
    IN CASE block_type = "header" -> "headers"
         [] block_type = "paragraph" -> "paragraphs"
         [] block_type = "table" -> "tables"
         [] block_type = "list_item" -> "lists"
         [] OTHER -> "other"

\* the loop of _group_blocks_by_type from block i on
RECURSIVE GroupBlocksFrom(_, _, _)
GroupBlocksFrom(blocks, i, groups) ==
    IF i > Len(blocks) THEN groups
    ELSE GroupBlocksFrom(blocks, i + 1,
                         [groups EXCEPT ![BranchOf(blocks[i])] = Append(@, blocks[i])])

\* grouping that leaves out the blocks of no known type
GroupBlocksByTypeKnownOnly(blocks) ==
    [GroupBlocksFrom(blocks, 1, EmptyGroups) EXCEPT !["other"] = <<>>]
\* DocumentIngestor._group_blocks_by_type
GroupBlocksByType(blocks) == GroupBlocksFrom(blocks, 1, EmptyGroups)

\* the Document one _process_*_hierarchical makes of a block; importance_score
\* in tenths
HierarchicalDocument(block, i, content_type, page, level, importance) == [
    document_id |-> pm.document_id,
    content_type |-> content_type,
    block_type |-> IF content_type # "other" THEN content_type
                   ELSE IF block.block_type = "missing" THEN "unknown"
                   ELSE block.block_type,
    block_index |-> block.block_index,
    page_number |-> page,
    hierarchical_level |-> level,
    importance_score |-> importance]

\* _process_headers_hierarchical, _process_tables_hierarchical
\* and _process_other_blocks_hierarchical: one document per block, in order
ProcessInOrder(blocks, content_type, level, importance) ==
    [i \in 1..Len(blocks) |->
        HierarchicalDocument(blocks[i], i - 1, content_type, blocks[i].page_number,
                             level, importance)]

\* keys of page_groups in insertion order: the pages by first appearance
RECURSIVE PageOrder(_, _)
PageOrder(blocks, seen) ==
    IF blocks = <<>> THEN <<>>
    ELSE IF Head(blocks).page_number \in seen THEN PageOrder(Tail(blocks), seen)
    ELSE <<Head(blocks).page_number>>
         \o PageOrder(Tail(blocks), seen \cup {Head(blocks).page_number})

\* page_blocks.sort(key=block_index): a stable insertion sort
RECURSIVE InsertByIndex(_, _)
InsertByIndex(sorted, block) ==
    IF sorted = <<>> THEN <<block>>
    ELSE IF sorted[Len(sorted)].block_index <= block.block_index
         THEN Append(sorted, block)
         ELSE Append(InsertByIndex(SubSeq(sorted, 1, Len(sorted) - 1), block),
                     sorted[Len(sorted)])
RECURSIVE SortByIndex(_)
SortByIndex(blocks) ==
    IF blocks = <<>> THEN <<>>
    ELSE InsertByIndex(SortByIndex(SubSeq(blocks, 1, Len(blocks) - 1)), blocks[Len(blocks)])

\* _process_paragraphs_hierarchical and _process_lists_hierarchical: the
\* blocks page by page, each page sorted by block_index
RECURSIVE ProcessPages(_, _, _, _, _)
ProcessPages(pages, blocks, content_type, level, importance) ==
    IF pages = <<>> THEN <<>>
    ELSE ProcessInOrder(SortByIndex(SelectSeq(blocks,
                                              LAMBDA b : b.page_number = Head(pages))),
                        content_type, level, importance)
         \o ProcessPages(Tail(pages), blocks, content_type, level, importance)
ProcessByPage(blocks, content_type, level, importance) ==
    ProcessPages(PageOrder(blocks, {}), blocks, content_type, level, importance)

\* the hierarchy without the blocks of the group "other"
CreateLlmsherpaHierarchyNoOther(groups) ==
    ProcessInOrder(groups["headers"], "header", 0, 9)
    \o ProcessByPage(groups["paragraphs"], "paragraph", 1, 7)
    \o ProcessInOrder(groups["tables"], "table", 1, 8)
    \o ProcessByPage(groups["lists"], "list_item", 2, 6)
\* DocumentIngestor._create_llmsherpa_hierarchy
CreateLlmsherpaHierarchy(groups) ==
    ProcessInOrder(groups["headers"], "header", 0, 9)
    \o ProcessByPage(groups["paragraphs"], "paragraph", 1, 7)
    \o ProcessInOrder(groups["tables"], "table", 1, 8)
    \o ProcessByPage(groups["lists"], "list_item", 2, 6)
    \o ProcessInOrder(groups["other"], "other", 3, 5)

InitHierarchy ==
    /\ TaskIdle
    /\ rl = RlIdle /\ dr = DrIdle /\ cv = CvIdle /\ cc = CcIdle
    /\ be = BeIdle
    /\ qa = QaIdle
    /\ dl = DlIdle
    /\ md = MdIdle
    /\ rq = RqIdle
    /\ \E blocks \in BlockLists :
          hb = [step |-> "parsed", blocks |-> blocks, groups |-> EmptyGroups,
                documents |-> <<>>, again |-> EmptyGroups]

\* _create_hierarchical_chunks: content_groups = _group_blocks_by_type(blocks)
HbGroupBlocks ==
    /\ hb.step = "parsed"
    /\ hb' = [hb EXCEPT !.step = "grouped", !.groups = GroupBlocksByType(hb.blocks)]
    /\ UNCHANGED <<task, md, rq, qa, dl, be, rl, dr, cv, cc>>

\* _create_hierarchical_chunks: _create_llmsherpa_hierarchy(content_groups, ...)
HbCreateHierarchy ==
    /\ hb.step = "grouped"
    /\ hb' = [hb EXCEPT !.step = "built", !.documents = CreateLlmsherpaHierarchy(hb.groups)]
    /\ UNCHANGED <<task, md, rq, qa, dl, be, rl, dr, cv, cc>>

\* _group_blocks_by_type called once more on the same list
HbGroupBlocksAgain ==
    /\ hb.step = "built"
    /\ hb' = [hb EXCEPT !.step = "regrouped", !.again = GroupBlocksByType(hb.blocks)]
    /\ UNCHANGED <<task, md, rq, qa, dl, be, rl, dr, cv, cc>>

NextHierarchy ==
    \/ HbGroupBlocks
    \/ HbCreateHierarchy
    \/ HbGroupBlocksAgain

SpecHierarchy == InitHierarchy /\ [][NextHierarchy]_vars

-----------------------------------------------------------------------------
(* _filter_metadata_for_chunking on its own.  A string is kept as its length  *)
(* in characters and the number of characters repr() writes for each of its  *)
(* characters (1 for printable ones, up to 10 for an escaped code point).    *)

\* the chunk size lists: the one DocumentIngestor.__init__ passes and the
\* default of CustomHierarchicalNodeParser.from_defaults
ChunkSizeConfigs == {<<4096, 2048, 1024>>, <<2048, 512, 128>>}

\* lengths of str(value) that are tried, around the two cuts at 20 and 50
ValueLens == {0, 1, 20, 21, 50, 51}
ReprWidths == {1, 10}
\* lengths of str(hash(...)): one digit, or a sign and 19 digits
HashLens == {1, 20}

\* what metadata holds under one key: no such key, None, or a value
MetaValues ==
    {[kind |-> "absent", len |-> 0, width |-> 1], [kind |-> "none", len |-> 4, width |-> 1]}
    \cup {[kind |-> "value", len |-> l, width |-> w] : l \in ValueLens, w \in ReprWidths}

minimal_keys == <<"document_id", "content_type", "hierarchical_level">>

\* smallest element of a non-empty sequence of numbers
RECURSIVE MinOf(_)
MinOf(q) ==
    IF Len(q) = 1 THEN q[1]
    ELSE LET m == MinOf(Tail(q)) IN IF q[1] < m THEN q[1] ELSE m

CutAt(n, limit) == IF n < limit THEN n ELSE limit

\* one entry of the returned dictionary: the key, the length of its string
\* value and the length of that value's repr(), quotes included
Item(key, chars, width) == [key |-> key, chars |-> chars, repr |-> chars * width + 2]

\* "chunk_" followed by the hash
ChunkIdItem(hashlen) == Item("chunk_id", 6 + hashlen, 1)

\* len(str(d)) of a dictionary: braces, 'key': value, and ", " between entries
RECURSIVE ItemsLen(_)
ItemsLen(items) ==
    IF items = <<>> THEN 0
    ELSE Len(Head(items).key) + 4 + Head(items).repr
         + (IF Len(items) > 1 THEN 2 ELSE 0) + ItemsLen(Tail(items))
SerializedLen(items) == 2 + ItemsLen(items)

\* the loop over minimal_keys: str(value)[:50] for a key that is present and
\* not None
RECURSIVE KeepMinimal(_, _)
KeepMinimal(metadata, keys) ==
    IF keys = <<>> THEN <<>>
    ELSE (IF metadata[Head(keys)].kind = "value"
          THEN <<Item(Head(keys), CutAt(metadata[Head(keys)].len, 50),
                      metadata[Head(keys)].width)>>
          ELSE <<>>)
         \o KeepMinimal(metadata, Tail(keys))

\* str(metadata.get(key, ""))[:20] of the fallback
Fallback(metadata, key) ==
    Item(key, IF metadata[key].kind = "absent" THEN 0 ELSE CutAt(metadata[key].len, 20),
         metadata[key].width)

\* the filter without the cut of each value at 50 characters
FilterMetadataForChunkingUncut(metadata, hashlen) ==
    LET kept == [k \in 1..Len(minimal_keys) |->
                    Item(minimal_keys[k], metadata[minimal_keys[k]].len,
                         metadata[minimal_keys[k]].width)]
    IN SelectSeq(kept, LAMBDA it : metadata[it.key].kind = "value") \o <<ChunkIdItem(hashlen)>>
\* DocumentIngestor._filter_metadata_for_chunking
FilterMetadataForChunking(metadata, hashlen) ==
    LET filtered == KeepMinimal(metadata, minimal_keys) \o <<ChunkIdItem(hashlen)>>
    IN IF SerializedLen(filtered) > 800
       THEN <<Fallback(metadata, "document_id"), Fallback(metadata, "content_type"),
              ChunkIdItem(hashlen)>>
       ELSE filtered

InitFilter ==
    /\ TaskIdle
    /\ rl = RlIdle /\ dr = DrIdle /\ cv = CvIdle /\ cc = CcIdle
    /\ be = BeIdle
    /\ qa = QaIdle
    /\ dl = DlIdle
    /\ hb = HbIdle
    /\ rq = RqIdle
    /\ \E metadata \in [Range(minimal_keys) -> MetaValues],
          hashlen \in HashLens, sizes \in ChunkSizeConfigs :
          md = [step |-> "called", metadata |-> metadata, hashlen |-> hashlen,
                chunk_sizes |-> sizes, filtered |-> <<>>]

\* one call of _filter_metadata_for_chunking
MdFilter ==
    /\ md.step = "called"
    /\ md' = [md EXCEPT !.step = "returned",
                        !.filtered = FilterMetadataForChunking(md.metadata, md.hashlen)]
    /\ UNCHANGED <<task, hb, rq, qa, dl, be, rl, dr, cv, cc>>

NextFilter == MdFilter

SpecFilter == InitFilter /\ [][NextFilter]_vars

-----------------------------------------------------------------------------
(* EnhancedVectorStoreService._enhance_query_with_history on its own. *)

Roles == {"user", "assistant", "system"}
Contents == {"a", "b"}
Messages == [role : Roles, content : Contents]
Histories == UNION {[1..n -> Messages] : n \in 0..MaxTurns}

\* conversation_history[-4:]
LastFour(history) ==
    IF Len(history) <= 4 THEN history ELSE SubSeq(history, Len(history) - 3, Len(history))

\* the loop that fills recent_context
RECURSIVE RecentContext(_)
RecentContext(messages) ==
    IF messages = <<>> THEN <<>>
    ELSE (IF Head(messages).role = "user"
          THEN <<"Previous question: " \o Head(messages).content>>
          ELSE IF Head(messages).role = "assistant"
          THEN <<"Previous answer: " \o Head(messages).content>>
          ELSE <<>>)
         \o RecentContext(Tail(messages))

\* " ".join(parts)
RECURSIVE JoinSpace(_)
JoinSpace(parts) ==
    IF parts = <<>> THEN ""
    ELSE IF Len(parts) = 1 THEN parts[1]
    ELSE parts[1] \o " " \o JoinSpace(Tail(parts))

\* the rewrite with conversation_history[:4] in place of [-4:]
EnhanceQueryWithHistoryFirstFour(query, conversation_history) ==
    IF conversation_history = <<>> THEN query
    ELSE LET recent_context ==
                 RecentContext(SubSeq(conversation_history, 1,
                                      IF Len(conversation_history) < 4
                                      THEN Len(conversation_history) ELSE 4))
         IN IF recent_context # <<>>
            THEN query \o " [Context from conversation: " \o JoinSpace(recent_context) \o "]"
            ELSE query
\* EnhancedVectorStoreService._enhance_query_with_history
EnhanceQueryWithHistory(query, conversation_history) ==
    IF conversation_history = <<>> THEN query
    ELSE LET recent_context == RecentContext(LastFour(conversation_history))
         IN IF recent_context # <<>>
            THEN query \o " [Context from conversation: " \o JoinSpace(recent_context) \o "]"
            ELSE query

InitEnhance ==
    /\ TaskIdle
    /\ rl = RlIdle /\ dr = DrIdle /\ cv = CvIdle /\ cc = CcIdle
    /\ be = BeIdle
    /\ qa = QaIdle
    /\ dl = DlIdle
    /\ hb = HbIdle
    /\ md = MdIdle
    /\ \E history \in Histories :
          rq = [step |-> "rewrite", query |-> "q", history |-> history, enhanced |-> ""]

\* one call of _enhance_query_with_history
RqEnhance ==
    /\ rq.step = "rewrite"
    /\ rq' = [rq EXCEPT !.step = "rewritten",
                        !.enhanced = EnhanceQueryWithHistory(rq.query, rq.history)]
    /\ UNCHANGED <<task, hb, md, qa, dl, be, rl, dr, cv, cc>>

NextEnhance == RqEnhance

SpecEnhance == InitEnhance /\ [][NextEnhance]_vars

-----------------------------------------------------------------------------
(* Retrieval: EnhancedVectorStoreService.hybrid_search and what it calls.    *)
(* MongoDB holds one document, "d1", with two chunks; "gone" is a document   *)
(* id with no record, "err" one whose lookup raises, "none" a match without  *)
(* a document_id in its metadata.                                            *)

PersistedChunks == <<"c0", "c1">>

\* what the vector index may hold for one vector: its score and metadata
Matches ==
    {[score |-> 1, document_id |-> d, chunk_index |-> 0] : d \in {"none", "gone", "err"}}
    \cup {[score |-> sc, document_id |-> "d1", chunk_index |-> ci] :
              sc \in 1..2, ci \in 0..(Len(PersistedChunks) - 1)}
    \cup {[score |-> 1, document_id |-> "d1", chunk_index |-> Len(PersistedChunks)]}
\* the index's answer to a query, best match first as the index ranks them
IndexLists == UNION {[1..n -> Matches] : n \in 0..MaxCands}

\* the histories a retrieval is run with: none, or one turn that is rewritten
\* into the query
RetrievalHistories == {<<>>, <<[role |-> "user", content |-> "a"]>>}

\* VectorStoreService.query_vectors: the first top_k matches, each with its id
QueryVectors(index, top_k) ==
    [k \in 1..(IF top_k < Len(index) THEN top_k ELSE Len(index)) |->
        [id |-> k, score |-> index[k].score, document_id |-> index[k].document_id,
         chunk_index |-> index[k].chunk_index]]

\* the body of the loop of _enrich_results_with_mongodb_content for one match
EnrichOne(match) ==
    IF match.document_id = "none" THEN <<>>
    ELSE IF match.document_id = "err" THEN <<>>
    ELSE IF match.document_id = "gone" THEN <<>>
    ELSE <<[id |-> match.id, score |-> match.score,
            document_id |-> match.document_id, chunk_index |-> match.chunk_index,
            content |-> IF PersistedChunks # <<>> /\ match.chunk_index < Len(PersistedChunks)
                        THEN PersistedChunks[match.chunk_index + 1]
                        ELSE ""]>>

\* EnhancedVectorStoreService._enrich_results_with_mongodb_content
RECURSIVE EnrichResultsWithMongodbContent(_)
EnrichResultsWithMongodbContent(vector_results) ==
    IF vector_results = <<>> THEN <<>>
    ELSE EnrichOne(Head(vector_results))
         \o EnrichResultsWithMongodbContent(Tail(vector_results))

\* the first loop of _rerank_results:
\* result["cross_encoder_score"] = result.get("score", 0.0)
Scored(results) ==
    [k \in 1..Len(results) |->
        [id |-> results[k].id, score |-> results[k].score,
         document_id |-> results[k].document_id, chunk_index |-> results[k].chunk_index,
         content |-> results[k].content, cross_encoder_score |-> results[k].score]]

\* where a stable sort by decreasing cross_encoder_score puts x in a sorted
\* list: behind every element whose score is not smaller
InsertByScore(sorted, x) ==
    LET before == SelectSeq(sorted, LAMBDA y : y.cross_encoder_score >= x.cross_encoder_score)
        after == SelectSeq(sorted, LAMBDA y : y.cross_encoder_score < x.cross_encoder_score)
    IN before \o <<x>> \o after

\* results.sort(key=cross_encoder_score, reverse=True) with the elements of
\* equal score in reverse order
RECURSIVE SortByScoreTiesReversed(_)
SortByScoreTiesReversed(results) ==
    IF results = <<>> THEN <<>>
    ELSE InsertByScore(SortByScoreTiesReversed(Tail(results)), Head(results))
\* results.sort(key=cross_encoder_score, reverse=True)
RECURSIVE SortByScore(_)
SortByScore(results) ==
    IF results = <<>> THEN <<>>
    ELSE InsertByScore(SortByScore(SubSeq(results, 1, Len(results) - 1)),
                       results[Len(results)])

\* results[:top_k]
FirstK(results, top_k) ==
    SubSeq(results, 1, IF top_k < Len(results) THEN top_k ELSE Len(results))

\* EnhancedVectorStoreService._rerank_results
RerankResults(results, top_k) ==
    IF results = <<>> THEN <<>> ELSE FirstK(SortByScore(Scored(results)), top_k)

InitRetrieval ==
    /\ TaskIdle
    /\ rl = RlIdle /\ dr = DrIdle /\ cv = CvIdle /\ cc = CcIdle
    /\ be = BeIdle
    /\ qa = QaIdle
    /\ dl = DlIdle
    /\ hb = HbIdle
    /\ md = MdIdle
    /\ \E history \in RetrievalHistories, top_k \in 1..MaxTopK, index \in IndexLists :
          rq = [step |-> "search", query |-> "q", history |-> history, top_k |-> top_k,
                index |-> index, attempts |-> <<>>, requested |-> 0, semantic |-> <<>>,
                enriched |-> <<>>, sorted |-> <<>>, results |-> <<>>,
                max_context_length |-> 0, context_parts |-> <<>>, sources |-> <<>>,
                context |-> "", context_length |-> 0]

\* one call of embedding_service.generate_single_embedding
Attempt(text, outcome) == [text |-> text, outcome |-> outcome]

\* query_with_conversation_context, up to its first embedding, which comes
\* back as a vector or as an empty list
RqEmbedEnhanced ==
    /\ rq.step = "search"
    /\ rq.history # <<>>
    /\ \E outcome \in {"ok", "empty"} :
          rq' = [rq EXCEPT
                    !.step = IF outcome = "ok" THEN "query" ELSE "retry",
                    !.attempts = Append(@, Attempt(EnhanceQueryWithHistory(rq.query, rq.history),
                                                   outcome))]
    /\ UNCHANGED <<task, hb, md, qa, dl, be, rl, dr, cv, cc>>

\* generate_embeddings re-raises what the OpenAI client raised; nothing on the
\* way up to hybrid_search's caller catches it
RqEmbedEnhancedRaises ==
    /\ rq.step = "search"
    /\ rq.history # <<>>
    /\ rq' = [rq EXCEPT
                 !.step = "raised",
                 !.attempts = Append(@, Attempt(EnhanceQueryWithHistory(rq.query, rq.history),
                                                "error"))]
    /\ UNCHANGED <<task, hb, md, qa, dl, be, rl, dr, cv, cc>>

\* the fallback to the original query, and the return of [] when it is empty too
RqEmbedOriginal ==
    /\ rq.step = "retry"
    /\ \E outcome \in {"ok", "empty"} :
          rq' = [rq EXCEPT
                    !.step = IF outcome = "ok" THEN "query" ELSE "returned",
                    !.attempts = Append(@, Attempt(rq.query, outcome))]
    /\ UNCHANGED <<task, hb, md, qa, dl, be, rl, dr, cv, cc>>

RqEmbedOriginalRaises ==
    /\ rq.step = "retry"
    /\ rq' = [rq EXCEPT !.step = "raised",
                        !.attempts = Append(@, Attempt(rq.query, "error"))]
    /\ UNCHANGED <<task, hb, md, qa, dl, be, rl, dr, cv, cc>>

\* hybrid_search without history: one embedding of the query
RqEmbedSimple ==
    /\ rq.step = "search"
    /\ rq.history = <<>>
    /\ \E outcome \in {"ok", "empty"} :
          rq' = [rq EXCEPT
                    !.step = IF outcome = "ok" THEN "query" ELSE "returned",
                    !.attempts = Append(@, Attempt(rq.query, outcome))]
    /\ UNCHANGED <<task, hb, md, qa, dl, be, rl, dr, cv, cc>>

RqEmbedSimpleRaises ==
    /\ rq.step = "search"
    /\ rq.history = <<>>
    /\ rq' = [rq EXCEPT !.step = "raised",
                        !.attempts = Append(@, Attempt(rq.query, "error"))]
    /\ UNCHANGED <<task, hb, md, qa, dl, be, rl, dr, cv, cc>>

\* query_vectors with top_k * 2 in the conversation-aware retrieval and top_k
\* in the simple one
RqQueryVectors ==
    /\ rq.step = "query"
    /\ LET top_k == IF rq.history # <<>> THEN rq.top_k * 2 ELSE rq.top_k
       IN rq' = [rq EXCEPT !.step = "enrich",
                           !.requested = top_k,
                           !.semantic = QueryVectors(rq.index, top_k)]
    /\ UNCHANGED <<task, hb, md, qa, dl, be, rl, dr, cv, cc>>

RqQueryVectorsRaises ==
    /\ rq.step = "query"
    /\ rq' = [rq EXCEPT !.step = "raised"]
    /\ UNCHANGED <<task, hb, md, qa, dl, be, rl, dr, cv, cc>>

\* _enrich_results_with_mongodb_content; the simple retrieval returns its result
RqEnrich ==
    /\ rq.step = "enrich"
    /\ LET enriched == EnrichResultsWithMongodbContent(rq.semantic)
       IN rq' = [rq EXCEPT
                    !.step = IF rq.history # <<>> THEN "rerank" ELSE "returned",
                    !.enriched = enriched,
                    !.results = IF rq.history # <<>> THEN @ ELSE enriched]
    /\ UNCHANGED <<task, hb, md, qa, dl, be, rl, dr, cv, cc>>

\* _rerank_results; `enriched` keeps the list in the order it had before the
\* sort, its dictionaries with the key the first loop has set
RqRerank ==
    /\ rq.step = "rerank"
    /\ rq' = [rq EXCEPT !.step = "returned",
                        !.enriched = Scored(rq.enriched),
                        !.sorted = SortByScore(Scored(rq.enriched)),
                        !.results = RerankResults(rq.enriched, rq.top_k)]
    /\ UNCHANGED <<task, hb, md, qa, dl, be, rl, dr, cv, cc>>

\* sep.join(parts)
RECURSIVE Join(_, _)
Join(parts, sep) ==
    IF parts = <<>> THEN ""
    ELSE IF Len(parts) = 1 THEN parts[1]
    ELSE parts[1] \o sep \o Join(Tail(parts), sep)

\* source_info of one included result
SourceInfo(r) ==
    [document_id |-> r.document_id, chunk_index |-> r.chunk_index, score |-> r.score,
     cross_encoder_score |-> IF "cross_encoder_score" \in DOMAIN r
                             THEN r.cross_encoder_score ELSE 0,
     id |-> r.id]

\* the loop of get_context_for_qa that skips a result that does not fit and
\* goes on with the next one
RECURSIVE ContextLoopSkipping(_, _, _)
ContextLoopSkipping(search_results, acc, max_context_length) ==
    IF search_results = <<>> THEN acc
    ELSE LET content == Head(search_results).content
         IN IF acc.current_length + Len(content) > max_context_length
            THEN ContextLoopSkipping(Tail(search_results), acc, max_context_length)
            ELSE ContextLoopSkipping(
                     Tail(search_results),
                     [context_parts |-> Append(acc.context_parts, content),
                      sources |-> Append(acc.sources, SourceInfo(Head(search_results))),
                      current_length |-> acc.current_length + Len(content)],
                     max_context_length)
\* the loop of get_context_for_qa over search_results, with its break
RECURSIVE ContextLoop(_, _, _)
ContextLoop(search_results, acc, max_context_length) ==
    IF search_results = <<>> THEN acc
    ELSE LET content == Head(search_results).content
         IN IF acc.current_length + Len(content) > max_context_length
            THEN acc
            ELSE ContextLoop(
                     Tail(search_results),
                     [context_parts |-> Append(acc.context_parts, content),
                      sources |-> Append(acc.sources, SourceInfo(Head(search_results))),
                      current_length |-> acc.current_length + Len(content)],
                     max_context_length)

\* get_context_for_qa after hybrid_search has returned: the loop and the join.
\* max_context_length is an argument of the call; it is not read before.
RqAssembleContext ==
    /\ rq.step = "returned"
    /\ \E max_context_length \in 0..MaxBudget :
          LET acc == ContextLoop(rq.results,
                                 [context_parts |-> <<>>, sources |-> <<>>,
                                  current_length |-> 0],
                                 max_context_length)
          IN rq' = [rq EXCEPT !.step = "assembled",
                              !.max_context_length = max_context_length,
                              !.context_parts = acc.context_parts,
                              !.sources = acc.sources,
                              !.context = Join(acc.context_parts, "\n\n"),
                              !.context_length = acc.current_length]
    /\ UNCHANGED <<task, hb, md, qa, dl, be, rl, dr, cv, cc>>

NextRetrieval ==
    \/ RqEmbedEnhanced
    \/ RqEmbedEnhancedRaises
    \/ RqEmbedOriginal
    \/ RqEmbedOriginalRaises
    \/ RqEmbedSimple
    \/ RqEmbedSimpleRaises
    \/ RqQueryVectors
    \/ RqQueryVectorsRaises
    \/ RqEnrich
    \/ RqRerank
    \/ RqAssembleContext

SpecRetrieval == InitRetrieval /\ [][NextRetrieval]_vars

-----------------------------------------------------------------------------
(* The Q&A workflow: QAGraphService.process_query and the four nodes of the  *)
(* graph.  get_context_for_qa is taken by its outcome: it raises, or it      *)
(* returns a context and the sources of the chunks in it.  A score is kept   *)
(* in tenths.                                                                *)

\* vector scores of a source, in tenths: the index's metric is cosine unless
\* the index was created elsewhere
ScoreTenths == {-5, 0, 5, 10, 15}
QaSourceLists == UNION {[1..n -> [score : ScoreTenths]] : n \in 0..MaxCands}

\* the edges of the graph built by _create_qa_graph
QaStages == <<"retrieve_context", "reason_and_answer", "validate_sources",
              "update_conversation">>
NextStage(stage) ==
    IF stage = "retrieve_context" THEN "reason_and_answer"
    ELSE IF stage = "reason_and_answer" THEN "validate_sources"
    ELSE IF stage = "validate_sources" THEN "update_conversation"
    ELSE "END"

\* initial_state of process_query
InitialAgentState ==
    [query |-> "q", session_id |-> "s1", context |-> <<>>, sources |-> <<>>,
     answer |-> "", confidence |-> Zero, reasoning_steps |-> <<>>]

\* the try branch of _retrieve_context_node
RetrieveContextOk(state, sources) ==
    [state EXCEPT !.context = <<"context">>,
                  !.sources = sources,
                  !.reasoning_steps = Append(@, "Retrieved relevant document chunks")]

\* the except branch of _retrieve_context_node that records nothing
RetrieveContextFailedSilently(state, e) ==
    [state EXCEPT !.context = <<>>, !.sources = <<>>]
\* the except branch of _retrieve_context_node
RetrieveContextFailed(state, e) ==
    [state EXCEPT !.context = <<>>,
                  !.sources = <<>>,
                  !.reasoning_steps = Append(@, "Error retrieving context: " \o e)]

\* the try branch of _reason_and_answer_node
ReasonAndAnswerOk(state, answer_content) ==
    [state EXCEPT !.answer = answer_content,
                  !.reasoning_steps = Append(@, "Generated answer using LLM reasoning")]

\* the except branch of _reason_and_answer_node that keeps the answer it had
ReasonAndAnswerFailedQuietly(state, e) ==
    [state EXCEPT !.reasoning_steps = Append(@, "Error in reasoning: " \o e)]
\* the except branch of _reason_and_answer_node
ReasonAndAnswerFailed(state, e) ==
    [state EXCEPT !.answer = "Error generating answer: " \o e,
                  !.reasoning_steps = Append(@, "Error in reasoning: " \o e)]

RECURSIVE SumScores(_)
SumScores(sources) ==
    IF sources = <<>> THEN 0 ELSE Head(sources).score + SumScores(Tail(sources))

\* min(avg_score, 1.0)
MinWithOne(x) == IF FracLeq(x, Frac(1, 1)) THEN x ELSE Frac(1, 1)

\* _validate_sources_node
ValidateSources(state) ==
    IF state.sources = <<>>
    THEN [state EXCEPT !.confidence = Zero,
                       !.reasoning_steps = Append(@, "No sources available for validation")]
    ELSE [state EXCEPT
             !.confidence = MinWithOne(Frac(SumScores(state.sources),
                                            10 * Len(state.sources))),
             !.reasoning_steps = Append(@, "Validated answer against sources")]

\* _update_conversation_node
UpdateConversation(state) ==
    [state EXCEPT !.reasoning_steps =
                      Append(@, "Updated conversation history for session " \o state.session_id)]

InitQA ==
    /\ TaskIdle
    /\ rl = RlIdle /\ dr = DrIdle /\ cv = CvIdle /\ cc = CcIdle
    /\ be = BeIdle
    /\ hb = HbIdle
    /\ md = MdIdle
    /\ rq = RqIdle
    /\ dl = DlIdle
    /\ qa = [step |-> "retrieve_context", state |-> InitialAgentState,
             executed |-> <<>>, llm_calls |-> 0, llm_failed |-> FALSE,
             returned |-> InitialAgentState]

\* a node ran: the graph moves along its edge
Ran(stage, state) ==
    [qa EXCEPT !.step = NextStage(stage), !.state = state,
               !.executed = Append(@, stage)]

\* _retrieve_context_node when get_context_for_qa returns
QaRetrieveContext ==
    /\ qa.step = "retrieve_context"
    /\ \E sources \in QaSourceLists :
          qa' = Ran("retrieve_context", RetrieveContextOk(qa.state, sources))
    /\ UNCHANGED <<task, hb, md, rq, dl, be, rl, dr, cv, cc>>

\* _retrieve_context_node when get_context_for_qa raises
QaRetrieveContextRaises ==
    /\ qa.step = "retrieve_context"
    /\ qa' = Ran("retrieve_context", RetrieveContextFailed(qa.state, "boom"))
    /\ UNCHANGED <<task, hb, md, rq, dl, be, rl, dr, cv, cc>>

\* _reason_and_answer_node when the LLM answers
QaReasonAndAnswer ==
    /\ qa.step = "reason_and_answer"
    /\ qa' = [Ran("reason_and_answer", ReasonAndAnswerOk(qa.state, "answer"))
                 EXCEPT !.llm_calls = @ + 1]
    /\ UNCHANGED <<task, hb, md, rq, dl, be, rl, dr, cv, cc>>

\* _reason_and_answer_node when self.llm.ainvoke raises
QaReasonAndAnswerRaises ==
    /\ qa.step = "reason_and_answer"
    /\ qa' = [Ran("reason_and_answer", ReasonAndAnswerFailed(qa.state, "boom"))
                 EXCEPT !.llm_calls = @ + 1, !.llm_failed = TRUE]
    /\ UNCHANGED <<task, hb, md, rq, dl, be, rl, dr, cv, cc>>

QaValidateSources ==
    /\ qa.step = "validate_sources"
    /\ qa' = Ran("validate_sources", ValidateSources(qa.state))
    /\ UNCHANGED <<task, hb, md, rq, dl, be, rl, dr, cv, cc>>

QaUpdateConversation ==
    /\ qa.step = "update_conversation"
    /\ qa' = Ran("update_conversation", UpdateConversation(qa.state))
    /\ UNCHANGED <<task, hb, md, rq, dl, be, rl, dr, cv, cc>>

\* process_query returns what the final state holds
QaReturn ==
    /\ qa.step = "END"
    /\ qa' = [qa EXCEPT !.step = "done", !.returned = qa.state]
    /\ UNCHANGED <<task, hb, md, rq, dl, be, rl, dr, cv, cc>>

NextQA ==
    \/ QaRetrieveContext
    \/ QaRetrieveContextRaises
    \/ QaReasonAndAnswer
    \/ QaReasonAndAnswerRaises
    \/ QaValidateSources
    \/ QaUpdateConversation
    \/ QaReturn

SpecQA == InitQA /\ [][NextQA]_vars

-----------------------------------------------------------------------------
(* Deletion of a document: the worker's delete_document_vectors, the vector  *)
(* index and the backend's handling of the reports.  The vectors of the      *)
(* document are numbered 1..n; a query answers with at most top_k of them,   *)
(* here the lowest numbered.  A report is one call of                        *)
(* report_deletion_status_to_backend, which POSTs once and never raises.     *)

\* how many vectors the index holds for the document
VectorCounts == {0, 1, 100, 101, 250, 10001}
\* PINECONE_API_KEY and PINECONE_INDEX of app.config
DeletionConfigs == {"ok", "no_api_key", "no_index"}

\* the backend before the deletion: documents.py has marked the record
DlBackends == {[exists |-> TRUE, status |-> "DELETING", chunks |-> c, error_message |-> ""] :
                  c \in {0, 2}}

\* receive_worker_status for a report of the deletion service, whose payload
\* has no operation_type and no chunks: the status is not in status_mapping
ReceiveDeletionStatus(b, status, error) ==
    LET updated == IF b.exists
                   THEN [b EXCEPT !.status = "PROCESSING",
                                  !.error_message = IF error # "" THEN error ELSE @]
                   ELSE b
    IN IF status = "deletion_completed"
       THEN [updated EXCEPT !.exists = FALSE, !.chunks = 0]
       ELSE IF status = "deletion_failed"
       THEN IF updated.exists
            THEN [updated EXCEPT !.status = "DELETE_ERROR", !.error_message = error]
            ELSE updated
       ELSE updated

\* index.query(..., top_k=10000): how many matches come back
Matched(n) == IF n < 10000 THEN n ELSE 10000

\* a batch that takes one id more than batch_size
BatchOfOverlapping(i, m) == [lo |-> i + 1, hi |-> IF i + 101 < m THEN i + 101 ELSE m]
\* vector_ids[i : i + batch_size], as the positions it covers
BatchOf(i, m) == [lo |-> i + 1, hi |-> IF i + 100 < m THEN i + 100 ELSE m]

\* the result of the except branch without the error text
FailureResultNoText(e) == [status |-> "error", deleted_vectors |-> 0, error |-> ""]
\* `result` as the except branch leaves it
FailureResult(e) == [status |-> "error", deleted_vectors |-> 0, error |-> e]

InitDeletion ==
    /\ TaskIdle
    /\ rl = RlIdle /\ dr = DrIdle /\ cv = CvIdle /\ cc = CcIdle
    /\ be = BeIdle
    /\ hb = HbIdle
    /\ md = MdIdle
    /\ rq = RqIdle
    /\ qa = QaIdle
    /\ \E n \in VectorCounts, config \in DeletionConfigs, b \in DlBackends :
          dl = [step |-> "start", config |-> config, total |-> n, index |-> 1..n,
                m |-> 0, i |-> 0, deleted_count |-> 0, batches |-> <<>>,
                calls |-> 0, reports |-> <<>>, exc |-> "",
                result |-> [status |-> "success", deleted_vectors |-> 0, error |-> ""],
                backend |-> b, completed_handled |-> FALSE]

\* one call of report_deletion_status_to_backend: the POST reaches the backend
\* and is handled, or it does not and the error is only logged
Reported(d, status, progress, error, handled) ==
    [d EXCEPT !.reports = Append(@, [status |-> status, progress |-> progress,
                                     error |-> error]),
              !.backend = IF handled THEN ReceiveDeletionStatus(@, status, error) ELSE @,
              !.completed_handled = @ \/ (handled /\ status = "deletion_completed")]

\* the validation of the configuration raises ValueError
DlConfigMissing ==
    /\ dl.step = "start"
    /\ dl.config # "ok"
    /\ dl' = [dl EXCEPT !.step = "except",
                        !.exc = IF dl.config = "no_api_key"
                                THEN "PINECONE_API_KEY is not configured"
                                ELSE "PINECONE_INDEX is not configured"]
    /\ UNCHANGED <<task, hb, md, rq, qa, be, rl, dr, cv, cc>>

\* pinecone.Pinecone(...) and pc.Index(...), then the first report
DlConnect ==
    /\ dl.step = "start"
    /\ dl.config = "ok"
    /\ \E handled \in BOOLEAN :
          dl' = Reported([dl EXCEPT !.step = "query", !.calls = @ + 1],
                         "deleting", 0, "", handled)
    /\ UNCHANGED <<task, hb, md, rq, qa, be, rl, dr, cv, cc>>

DlConnectRaises ==
    /\ dl.step = "start"
    /\ dl.config = "ok"
    /\ dl' = [dl EXCEPT !.step = "except", !.calls = @ + 1, !.exc = "connect failed"]
    /\ UNCHANGED <<task, hb, md, rq, qa, be, rl, dr, cv, cc>>

\* index.query and the choice between the loop and the else branch
DlQuery ==
    /\ dl.step = "query"
    /\ dl' = [dl EXCEPT !.step = IF Matched(dl.total) > 0 THEN "loop" ELSE "complete",
                        !.calls = @ + 1,
                        !.m = Matched(dl.total)]
    /\ UNCHANGED <<task, hb, md, rq, qa, be, rl, dr, cv, cc>>

DlQueryRaises ==
    /\ dl.step = "query"
    /\ dl' = [dl EXCEPT !.step = "except", !.calls = @ + 1, !.exc = "query failed"]
    /\ UNCHANGED <<task, hb, md, rq, qa, be, rl, dr, cv, cc>>

\* one turn of the loop: index.delete(ids=batch), the count, the progress
\* report; after the last turn result["deleted_vectors"] is set
DlDeleteBatch ==
    /\ dl.step = "loop"
    /\ LET batch == BatchOf(dl.i, dl.m)
           count == dl.deleted_count + (batch.hi - batch.lo + 1)
           last == dl.i + 100 >= dl.m
       IN \E handled \in BOOLEAN :
             dl' = Reported([dl EXCEPT
                                !.step = IF last THEN "complete" ELSE "loop",
                                !.calls = @ + 1,
                                !.index = @ \ (batch.lo..batch.hi),
                                !.batches = Append(@, batch),
                                !.deleted_count = count,
                                !.i = @ + 100,
                                !.result = IF last THEN [@ EXCEPT !.deleted_vectors = count]
                                           ELSE @],
                            "deleting", (count * 100) \div dl.m, "", handled)
    /\ UNCHANGED <<task, hb, md, rq, qa, be, rl, dr, cv, cc>>

DlDeleteBatchRaises ==
    /\ dl.step = "loop"
    /\ dl' = [dl EXCEPT !.step = "except", !.calls = @ + 1, !.exc = "delete failed"]
    /\ UNCHANGED <<task, hb, md, rq, qa, be, rl, dr, cv, cc>>

\* the report of the completion, and the return
DlReportCompleted ==
    /\ dl.step = "complete"
    /\ \E handled \in BOOLEAN :
          dl' = Reported([dl EXCEPT !.step = "returned"],
                         "deletion_completed", 100, "", handled)
    /\ UNCHANGED <<task, hb, md, rq, qa, be, rl, dr, cv, cc>>

\* the except branch: the result, the failure report, and the return
DlExcept ==
    /\ dl.step = "except"
    /\ \E handled \in BOOLEAN :
          dl' = Reported([dl EXCEPT !.step = "returned",
                                    !.result = FailureResult(dl.exc)],
                         "deletion_failed", 0, dl.exc, handled)
    /\ UNCHANGED <<task, hb, md, rq, qa, be, rl, dr, cv, cc>>

NextDeletion ==
    \/ DlConfigMissing
    \/ DlConnect
    \/ DlConnectRaises
    \/ DlQuery
    \/ DlQueryRaises
    \/ DlDeleteBatch
    \/ DlDeleteBatchRaises
    \/ DlReportCompleted
    \/ DlExcept

SpecDeletion == InitDeletion /\ [][NextDeletion]_vars

-----------------------------------------------------------------------------
(* One request to POST /worker/status, step by step.  main.py sets the       *)
(* router's websocket_manager, and WebSocketManager.broadcast swallows what  *)
(* a connection raises, so sending an event does not fail.                   *)

\* an element of update.chunks: a plain string, or a dict with "metadata"
ChunkItems ==
    {[metadata |-> FALSE, content |-> "x", chunk_index |-> -1, document_id |-> ""],
     [metadata |-> TRUE, content |-> "y", chunk_index |-> 7, document_id |-> "doc-1"]}
ChunkPayloads == UNION {[1..n -> ChunkItems] : n \in 0..MaxCands}

WorkerStatusUpdates ==
    [task_id : {"task-1"}, document_id : {"doc-1"},
     operation_type : {"processing", "deletion"},
     status : {"completed", "failed", "processing", "deletion_completed", "deletion_failed"},
     chunks : ChunkPayloads,
     error : {"None", "boom"}]

\* backend_status of receive_worker_status
BackendStatusOf(update) ==
    IF update.operation_type = "deletion"
    THEN IF update.status = "completed" THEN "COMPLETED"
         ELSE IF update.status = "failed" THEN "DELETE_ERROR"
         ELSE "DELETING"
    ELSE BackendStatus(update.status)

\* chunks_data with chunk_index counted from 1
RECURSIVE ChunksDataOneBased(_, _, _)
ChunksDataOneBased(chunks, document_id, chunks_data) ==
    IF chunks = <<>> THEN chunks_data
    ELSE ChunksDataOneBased(
             Tail(chunks), document_id,
             Append(chunks_data,
                    IF Head(chunks).metadata THEN Head(chunks)
                    ELSE [metadata |-> TRUE, content |-> Head(chunks).content,
                          chunk_index |-> Len(chunks_data) + 1,
                          document_id |-> document_id]))
\* the loop that builds chunks_data from update.chunks
RECURSIVE ChunksData(_, _, _)
ChunksData(chunks, document_id, chunks_data) ==
    IF chunks = <<>> THEN chunks_data
    ELSE ChunksData(
             Tail(chunks), document_id,
             Append(chunks_data,
                    IF Head(chunks).metadata THEN Head(chunks)
                    ELSE [metadata |-> TRUE, content |-> Head(chunks).content,
                          chunk_index |-> Len(chunks_data),
                          document_id |-> document_id]))

\* DocumentService.save_chunks with the document_id it writes into each chunk
SaveChunksFor(b, document_id, chunks) ==
    SaveChunks(b, [k \in 1..Len(chunks) |-> [chunks[k] EXCEPT !.document_id = document_id]])

\* an except branch that marks the document failed when the chunks are not
\* saved
SaveFailedFlipsStatus(b) == IF b.exists THEN [b EXCEPT !.status = "FAILED"] ELSE b
\* the except branch around save_chunks: the failure is logged, nothing else
SaveFailed(b) == b

\* DocumentService.delete_document
DeleteDocument(b) == [b EXCEPT !.exists = FALSE, !.chunks = <<>>]

InitReceive ==
    /\ TaskIdle
    /\ rl = RlIdle /\ dr = DrIdle /\ cv = CvIdle /\ cc = CcIdle
    /\ hb = HbIdle
    /\ md = MdIdle
    /\ rq = RqIdle
    /\ qa = QaIdle
    /\ dl = DlIdle
    /\ \E update \in WorkerStatusUpdates :
          be = [step |-> "received", update |-> update, backend |-> NewBackend,
                updates |-> 0, saves |-> 0, save_failed |-> FALSE, events |-> <<>>,
                response |-> "none"]

\* update_document_status with backend_status and update_data
BeUpdateStatus ==
    /\ be.step = "received"
    /\ be' = [be EXCEPT
                 !.step = IF be.update.status = "completed" /\ be.update.chunks # <<>>
                          THEN "save" ELSE "notify",
                 !.updates = @ + 1,
                 !.backend = UpdateDocumentStatus(@, BackendStatusOf(be.update),
                                                  Len(be.update.chunks), be.update.error)]
    /\ UNCHANGED <<task, hb, md, rq, qa, dl, rl, dr, cv, cc>>

\* the database call raises: HTTPException 500
BeUpdateStatusRaises ==
    /\ be.step = "received"
    /\ be' = [be EXCEPT !.step = "done", !.updates = @ + 1, !.response = "500"]
    /\ UNCHANGED <<task, hb, md, rq, qa, dl, rl, dr, cv, cc>>

BeSaveChunks ==
    /\ be.step = "save"
    /\ be' = [be EXCEPT
                 !.step = "notify",
                 !.saves = @ + 1,
                 !.backend = SaveChunksFor(@, be.update.document_id,
                                           ChunksData(be.update.chunks,
                                                      be.update.document_id, <<>>))]
    /\ UNCHANGED <<task, hb, md, rq, qa, dl, rl, dr, cv, cc>>

BeSaveChunksRaises ==
    /\ be.step = "save"
    /\ be' = [be EXCEPT !.step = "notify", !.saves = @ + 1, !.save_failed = TRUE,
                        !.backend = SaveFailed(@)]
    /\ UNCHANGED <<task, hb, md, rq, qa, dl, rl, dr, cv, cc>>

\* the event sent for the update, by the branches of the if chain
EventOf(update) ==
    IF update.status = "completed" /\ update.operation_type = "processing"
    THEN [type |-> "processing_complete", task_id |-> update.task_id]
    ELSE IF update.status = "completed" /\ update.operation_type = "deletion"
    THEN [type |-> "document_deleted_success", task_id |-> update.task_id]
    ELSE IF update.status = "failed"
    THEN [type |-> "error", task_id |-> update.task_id]
    ELSE IF update.status = "deletion_completed"
    THEN [type |-> "document_deleted_success", task_id |-> update.task_id]
    ELSE IF update.status = "deletion_failed"
    THEN [type |-> "document_deleted_failed", task_id |-> update.task_id]
    ELSE [type |-> "progress_update", task_id |-> update.task_id]

\* what the branch does to the database after its event
AfterEvent(b, update) ==
    IF update.status = "completed" /\ update.operation_type = "processing" THEN b
    ELSE IF update.status = "completed" /\ update.operation_type = "deletion"
    THEN DeleteDocument(b)
    ELSE IF update.status = "failed" THEN b
    ELSE IF update.status = "deletion_completed" THEN DeleteDocument(b)
    ELSE IF update.status = "deletion_failed"
    THEN UpdateDocumentStatus(b, "DELETE_ERROR", b.chunks_count,
                              IF update.error # "None" THEN update.error
                              ELSE "Document deletion failed")
    ELSE b

\* the WebSocket event and the answer
BeNotify ==
    /\ be.step = "notify"
    /\ be' = [be EXCEPT !.step = "done",
                        !.events = Append(@, EventOf(be.update)),
                        !.backend = AfterEvent(@, be.update),
                        !.response = "success"]
    /\ UNCHANGED <<task, hb, md, rq, qa, dl, rl, dr, cv, cc>>

\* the database call after the event raises: HTTPException 500
BeNotifyRaises ==
    /\ be.step = "notify"
    /\ AfterEvent(be.backend, be.update) # be.backend
    /\ be' = [be EXCEPT !.step = "done",
                        !.events = Append(@, EventOf(be.update)),
                        !.response = "500"]
    /\ UNCHANGED <<task, hb, md, rq, qa, dl, rl, dr, cv, cc>>

NextReceive ==
    \/ BeUpdateStatus
    \/ BeUpdateStatusRaises
    \/ BeSaveChunks
    \/ BeSaveChunksRaises
    \/ BeNotify
    \/ BeNotifyRaises

SpecReceive == InitReceive /\ [][NextReceive]_vars

-----------------------------------------------------------------------------
(* The chunker over documents that carry metadata: the llmsherpa path of    *)
(* DocumentIngestor from the parsed blocks to the two chunk payloads, and   *)
(* the reader path from the loaded documents on.  A metadata dictionary is  *)
(* a function from its keys; a level is kept with the Python type it has,   *)
(* 1 as [kind |-> "int", n |-> 1] and "1" as [kind |-> "str", n |-> 1].     *)

IntValue(n) == [kind |-> "int", n |-> n]
StrValue(n) == [kind |-> "str", n |-> n]
NoneValue == [kind |-> "none", n |-> 0]

\* d[k] = v and d.get(k, default) of a dictionary
Put(d, k, v) == [x \in DOMAIN d \cup {k} |-> IF x = k THEN v ELSE d[x]]
Get(d, k, default) == IF k \in DOMAIN d THEN d[k] ELSE default
\* {**a, **b}
Merge(a, b) == [x \in DOMAIN a \cup DOMAIN b |-> IF x \in DOMAIN b THEN b[x] ELSE a[x]]
EmptyDict == [x \in {} |-> 0]

\* the blocks of a parsed .pdf, each with the size of its text: the first
\* block is on page 1, the others on page 2
RlBlockTypes == {"header", "paragraph", "table", "list_item", "text"}
RlBlockLists ==
    UNION {{[k \in 1..n |-> [block_type |-> f[k][1],
                             page_number |-> IF k = 1 THEN 1 ELSE 2,
                             block_index |-> k - 1, size |-> f[k][2]]] :
               f \in [1..n -> RlBlockTypes \X (1..MaxLen)]} : n \in 1..MaxDocs}
\* the documents a reader loads: text only
RlReaderLists == UNION {[1..n -> 1..MaxLen] : n \in 1..MaxDocs}

\* the metadata dictionary of the Document HierarchicalDocument describes;
\* importance_score in tenths
FullMetadata(h) ==
    [x \in {"document_id", "content_type", "block_type", "block_index", "page_number",
            "hierarchical_level", "importance_score"} |->
        CASE x = "hierarchical_level" -> IntValue(h.hierarchical_level)
          [] x = "document_id" -> h.document_id
          [] x = "content_type" -> h.content_type
          [] x = "block_type" -> h.block_type
          [] x = "block_index" -> IntValue(h.block_index)
          [] x = "page_number" -> IntValue(h.page_number)
          [] OTHER -> IntValue(h.importance_score)]

\* _filter_metadata_for_chunking on the values: str(value)[:50] of the three
\* minimal keys and chunk_id, or the three keys of the safety branch
FilteredMetadata(metadata, too_large) ==
    IF too_large
    THEN [x \in {"document_id", "content_type", "chunk_id"} |->
             IF x = "chunk_id" THEN "chunk_hash" ELSE metadata[x]]
    ELSE [x \in {"document_id", "content_type", "hierarchical_level", "chunk_id"} |->
             CASE x = "chunk_id" -> "chunk_hash"
               [] x = "hierarchical_level" -> StrValue(metadata[x].n)
               [] OTHER -> metadata[x]]

\* _create_hierarchical_chunks: the documents of the blocks, each with the
\* size of its block's text
FullDocuments(blocks) ==
    LET hs == CreateLlmsherpaHierarchy(GroupBlocksByType(blocks))
    IN [i \in 1..Len(hs) |->
           [size |-> blocks[hs[i].block_index + 1].size, metadata |-> FullMetadata(hs[i])]]

\* _store_full_metadata: one entry per document, under the document's position
StoreFullMetadata(documents) ==
    [i \in 0..(Len(documents) - 1) |->
        Merge([x \in {"parser"} |-> "llmsherpa"], documents[i + 1].metadata)]

\* _add_enhanced_relationships: what it makes of the metadata of a child node
AddEnhancedRelationships(parent_node, metadata) ==
    LET child_content_type == Get(metadata, "content_type", "None")
        typed == CASE child_content_type = "header" ->
                         Put(metadata, "structural_importance", "high")
                   [] child_content_type = "table" ->
                         Put(metadata, "table_parent_context", parent_node.id)
                   [] child_content_type = "list_item" ->
                         Put(metadata, "list_parent", parent_node.id)
                   [] OTHER -> metadata
        parent_level == Get(parent_node.metadata, "hierarchical_level", IntValue(0))
        child_level == Get(metadata, "hierarchical_level", IntValue(1))
    IN Put(Put(typed, "parent_level", parent_level), "child_level", child_level)

\* the sub-nodes the splitter of `level` returns for `node` (id 0 for an input
\* document), the first of them getting id `first`: with include_metadata
\* each has the metadata of the node it was split from, and at level > 0 the
\* enhanced relationships are added
SubNodes(node, level, first, origin) ==
    LET sizes == SplitSizes(node.size, chunk_sizes[level + 1])
    IN [k \in 1..Len(sizes) |->
           [id |-> first + k - 1,
            size |-> sizes[k],
            level |-> level,
            parent |-> IF level > 0 THEN node.id ELSE 0,
            origin |-> origin,
            metadata |-> IF level > 0 THEN AddEnhancedRelationships(node, node.metadata)
                         ELSE node.metadata]]

\* the loop of _recursively_get_nodes_from_nodes from node i of its `nodes` on
RECURSIVE SubNodesFrom(_, _, _, _, _)
SubNodesFrom(node_list, i, level, first, origin) ==
    IF i > Len(node_list) THEN <<>>
    ELSE LET cur_sub_nodes == SubNodes(node_list[i], level, first, origin)
         IN cur_sub_nodes
            \o SubNodesFrom(node_list, i + 1, level, first + Len(cur_sub_nodes), origin)

\* _recursively_get_nodes_from_nodes for a level that has a splitter
RECURSIVE RecursivelyGetNodesFromNodes(_, _, _, _)
RecursivelyGetNodesFromNodes(node_list, level, first, origin) ==
    LET sub_nodes == SubNodesFrom(node_list, 1, level, first, origin)
    IN IF level < NumLevels - 1
       THEN sub_nodes \o RecursivelyGetNodesFromNodes(sub_nodes, level + 1,
                                                      first + Len(sub_nodes), origin)
       ELSE sub_nodes

\* get_nodes_from_documents from document i on, `first` being the next free id
RECURSIVE GetNodesFrom(_, _, _)
GetNodesFrom(documents, i, first) ==
    IF i > Len(documents) THEN <<>>
    ELSE LET doc == [id |-> 0, size |-> documents[i].size,
                     metadata |-> documents[i].metadata]
             nodes_from_doc == RecursivelyGetNodesFromNodes(<<doc>>, 0, first, i)
         IN nodes_from_doc \o GetNodesFrom(documents, i + 1, first + Len(nodes_from_doc))
GetNodesFromDocuments(documents, first) == GetNodesFrom(documents, 1, first)

\* ingest: node.metadata["chunk_index"] = i, document_id and source_file are
\* set on every node
SetNodeIds(node_list) ==
    [i \in 1..Len(node_list) |->
        [node_list[i] EXCEPT
            !.metadata = Put(Put(Put(@, "chunk_index", IntValue(i - 1)),
                                 "document_id", pm.document_id),
                             "source_file", "file_path")]]

\* pipeline.run(nodes=nodes): the chunker, its first transformation, is applied
\* to the nodes; a node it returns comes from the block its input node came from
PipelineRun(node_list) ==
    LET out == GetNodesFromDocuments(node_list, Len(node_list) + 1)
    IN [j \in 1..Len(out) |-> [out[j] EXCEPT !.origin = node_list[out[j].origin].origin]]

\* chunks_data of _store_metadata_in_backend with the metadata it sends: the
\* entry of full_metadata_store under the node's position if there is one, the
\* basic metadata otherwise
StoreChunksMetadata(embedded_nodes, full_metadata_store) ==
    [j \in 1..Len(embedded_nodes) |->
        [chunk_index |-> j - 1,
         origin |-> embedded_nodes[j].origin,
         metadata |->
            IF (j - 1) \in DOMAIN full_metadata_store
            THEN Put(full_metadata_store[j - 1], "source", "document_ingestor")
            ELSE [x \in {"source", "parser", "block_type", "block_index", "page_number"} |->
                     CASE x = "source" -> "document_ingestor"
                       [] x = "parser" ->
                             Get(embedded_nodes[j].metadata, "parser", "llama_index")
                       [] x = "block_type" ->
                             Get(embedded_nodes[j].metadata, "block_type", "None")
                       [] OTHER -> Get(embedded_nodes[j].metadata, x, NoneValue)]]]

\* chunks_data of _prepare_chunks_for_completion with the metadata it sends
CompletionChunksMetadata(embedded_nodes) ==
    [j \in 1..Len(embedded_nodes) |->
        [chunk_index |-> Get(embedded_nodes[j].metadata, "chunk_index", IntValue(0)),
         origin |-> embedded_nodes[j].origin,
         metadata |->
            [x \in {"content_type", "block_type", "hierarchical_level",
                    "importance_score", "page_number"} |->
                CASE x = "content_type" ->
                        Get(embedded_nodes[j].metadata, x, "unknown")
                  [] x = "block_type" -> Get(embedded_nodes[j].metadata, x, "unknown")
                  [] x = "hierarchical_level" ->
                        Get(embedded_nodes[j].metadata, x, IntValue(0))
                  [] x = "importance_score" ->
                        Get(embedded_nodes[j].metadata, x, IntValue(5))
                  [] OTHER -> Get(embedded_nodes[j].metadata, x, IntValue(1))]]]

InitRelationships ==
    /\ TaskIdle
    /\ hb = HbIdle /\ md = MdIdle /\ rq = RqIdle /\ qa = QaIdle /\ dl = DlIdle /\ be = BeIdle
    /\ dr = DrIdle /\ cv = CvIdle /\ cc = CcIdle
    /\ \/ \E blocks \in RlBlockLists, too_large \in BOOLEAN :
             rl = [step |-> "parsed", blocks |-> blocks, too_large |-> too_large,
                   full_documents |-> <<>>, documents |-> <<>>,
                   full_metadata_store |-> EmptyDict, nodes |-> <<>>,
                   embedded_nodes |-> <<>>, store_chunks |-> <<>>,
                   completion_chunks |-> <<>>]
       \/ \E docs \in RlReaderLists :
             rl = [step |-> "loaded", blocks |-> <<>>, too_large |-> FALSE,
                   full_documents |-> <<>>,
                   documents |-> [i \in 1..Len(docs) |->
                                     [size |-> docs[i], metadata |-> EmptyDict]],
                   full_metadata_store |-> EmptyDict, nodes |-> <<>>,
                   embedded_nodes |-> <<>>, store_chunks |-> <<>>,
                   completion_chunks |-> <<>>]

\* _create_hierarchical_chunks_with_filtered_metadata: the full documents,
\* their metadata stored, and the documents with filtered metadata
RlCreateChunks ==
    /\ rl.step = "parsed"
    /\ LET full_documents == FullDocuments(rl.blocks)
       IN rl' = [rl EXCEPT
                    !.step = "documents",
                    !.full_documents = full_documents,
                    !.full_metadata_store = StoreFullMetadata(full_documents),
                    !.documents =
                        [i \in 1..Len(full_documents) |->
                            [size |-> full_documents[i].size,
                             metadata |-> FilteredMetadata(full_documents[i].metadata,
                                                           rl.too_large)]]]
    /\ UNCHANGED <<task, hb, md, rq, qa, dl, be, dr, cv, cc>>

\* _ingest_with_llmsherpa: self._store_full_metadata(documents) with the
\* documents that were just returned
RlStoreFullMetadata ==
    /\ rl.step = "documents"
    /\ rl' = [rl EXCEPT !.step = "stored",
                        !.full_metadata_store = StoreFullMetadata(rl.documents)]
    /\ UNCHANGED <<task, hb, md, rq, qa, dl, be, dr, cv, cc>>

\* nodes = self.chunker.get_nodes_from_documents(documents), of either path
RlChunk ==
    /\ rl.step \in {"stored", "loaded"}
    /\ rl' = [rl EXCEPT !.step = "chunked",
                        !.nodes = GetNodesFromDocuments(rl.documents, 1)]
    /\ UNCHANGED <<task, hb, md, rq, qa, dl, be, dr, cv, cc>>

\* ingest: the loop that sets node ids and metadata
RlSetNodeIds ==
    /\ rl.step = "chunked"
    /\ rl' = [rl EXCEPT !.step = "identified", !.nodes = SetNodeIds(rl.nodes)]
    /\ UNCHANGED <<task, hb, md, rq, qa, dl, be, dr, cv, cc>>

\* ingest: embedded_nodes = self.pipeline.run(nodes=nodes)
RlPipelineRun ==
    /\ rl.step = "identified"
    /\ rl' = [rl EXCEPT !.step = "embedded", !.embedded_nodes = PipelineRun(rl.nodes)]
    /\ UNCHANGED <<task, hb, md, rq, qa, dl, be, dr, cv, cc>>

\* ingest: self._store_metadata_in_backend(embedded_nodes)
RlStoreMetadata ==
    /\ rl.step = "embedded"
    /\ rl' = [rl EXCEPT !.step = "sent",
                        !.store_chunks = StoreChunksMetadata(rl.embedded_nodes,
                                                             rl.full_metadata_store)]
    /\ UNCHANGED <<task, hb, md, rq, qa, dl, be, dr, cv, cc>>

\* ingest: chunks_data = self._prepare_chunks_for_completion(embedded_nodes)
RlPrepareChunks ==
    /\ rl.step = "sent"
    /\ rl' = [rl EXCEPT !.step = "completed",
                        !.completion_chunks = CompletionChunksMetadata(rl.embedded_nodes)]
    /\ UNCHANGED <<task, hb, md, rq, qa, dl, be, dr, cv, cc>>

NextRelationships ==
    \/ RlCreateChunks
    \/ RlStoreFullMetadata
    \/ RlChunk
    \/ RlSetNodeIds
    \/ RlPipelineRun
    \/ RlStoreMetadata
    \/ RlPrepareChunks

SpecRelationships == InitRelationships /\ [][NextRelationships]_vars

-----------------------------------------------------------------------------
(* One DELETE /documents/{document_id} request: the endpoint, the Celery    *)
(* task it submits and the worker's delete_document_task.                   *)

\* the values of ProcessingStatus a stored document may have
DocumentStatuses == {"PENDING", "PROCESSING", "COMPLETED", "FAILED", "DELETING", "DELETE_ERROR"}

\* the documents collection as the request finds it: no such document, or
\* the record with its status and the number of its stored chunks
DrBackends ==
    {[exists |-> FALSE, status |-> "PENDING", chunks |-> 0]}
    \cup {[exists |-> TRUE, status |-> s, chunks |-> c] : s \in DocumentStatuses, c \in 0..MaxDocs}

\* DocumentService.mark_document_deleting
MarkDocumentDeleting(b) == IF b.exists THEN [b EXCEPT !.status = "DELETING"] ELSE b

InitDeleteRequest ==
    /\ TaskIdle
    /\ hb = HbIdle /\ md = MdIdle /\ rq = RqIdle /\ qa = QaIdle /\ dl = DlIdle /\ be = BeIdle
    /\ rl = RlIdle /\ cv = CvIdle /\ cc = CcIdle
    /\ \E b \in DrBackends, v \in 0..MaxDocs :
          dr = [step |-> "request", backend |-> b, vectors |-> v, events |-> <<>>,
                response |-> 0, task |-> "none", exc |-> "", reports |-> <<>>]

\* delete_document: get_document returns None and 404 is raised
DrNotFound ==
    /\ dr.step = "request"
    /\ ~dr.backend.exists
    /\ dr' = [dr EXCEPT !.step = "answered", !.response = 404]
    /\ UNCHANGED <<task, hb, md, rq, qa, dl, be, rl, cv, cc>>

\* delete_document: get_document returns the document
DrFound ==
    /\ dr.step = "request"
    /\ dr.backend.exists
    /\ dr' = [dr EXCEPT !.step = "found"]
    /\ UNCHANGED <<task, hb, md, rq, qa, dl, be, rl, cv, cc>>

\* delete_document: get_document raises and the except clause answers 500
DrGetDocumentRaises ==
    /\ dr.step = "request"
    /\ dr' = [dr EXCEPT !.step = "answered", !.response = 500]
    /\ UNCHANGED <<task, hb, md, rq, qa, dl, be, rl, cv, cc>>

\* delete_document: mark_document_deleting
DrMarkDeleting ==
    /\ dr.step = "found"
    /\ dr' = [dr EXCEPT !.step = "marked", !.backend = MarkDocumentDeleting(@)]
    /\ UNCHANGED <<task, hb, md, rq, qa, dl, be, rl, cv, cc>>

DrMarkDeletingRaises ==
    /\ dr.step = "found"
    /\ dr' = [dr EXCEPT !.step = "answered", !.response = 500]
    /\ UNCHANGED <<task, hb, md, rq, qa, dl, be, rl, cv, cc>>

\* delete_document: send_document_deletion_started, the router's manager being
\* set by main.py
DrEmitStarted ==
    /\ dr.step = "marked"
    /\ dr' = [dr EXCEPT !.step = "emitted",
                        !.events = Append(@, "document_deletion_started")]
    /\ UNCHANGED <<task, hb, md, rq, qa, dl, be, rl, cv, cc>>

\* delete_document: send_task("app.tasks.delete_document_task",
\* args=[document_id]) and the answer with the task's id
DrSendTask ==
    /\ dr.step = "emitted"
    /\ dr' = [dr EXCEPT !.step = "answered", !.response = 200, !.task = "queued"]
    /\ UNCHANGED <<task, hb, md, rq, qa, dl, be, rl, cv, cc>>

\* delete_document: send_task raises (no broker) and the answer is 500
DrSendTaskRaises ==
    /\ dr.step = "emitted"
    /\ dr' = [dr EXCEPT !.step = "answered", !.response = 500]
    /\ UNCHANGED <<task, hb, md, rq, qa, dl, be, rl, cv, cc>>

\* delete_document_task, started by the worker for the queued task:
\* delete_document_vectors(document_id, task_id) is called with two arguments,
\* the function takes one, and the call raises TypeError before its body runs
DrTaskCallsService ==
    /\ dr.task = "queued"
    /\ dr' = [dr EXCEPT !.task = "except",
                        !.exc = "TypeError: delete_document_vectors() takes 1 positional argument but 2 were given"]
    /\ UNCHANGED <<task, hb, md, rq, qa, dl, be, rl, cv, cc>>

\* delete_document_task: its except clause logs the error and re-raises; the
\* task ends as failed and nothing is reported to the backend
DrTaskExcept ==
    /\ dr.task = "except"
    /\ dr' = [dr EXCEPT !.task = "failed"]
    /\ UNCHANGED <<task, hb, md, rq, qa, dl, be, rl, cv, cc>>

NextDeleteRequest ==
    \/ DrNotFound
    \/ DrFound
    \/ DrGetDocumentRaises
    \/ DrMarkDeleting
    \/ DrMarkDeletingRaises
    \/ DrEmitStarted
    \/ DrSendTask
    \/ DrSendTaskRaises
    \/ DrTaskCallsService
    \/ DrTaskExcept

\* the queue delivers a submitted task and the worker runs it to its end
SpecDeleteRequest ==
    InitDeleteRequest /\ [][NextDeleteRequest]_vars /\ WF_vars(NextDeleteRequest)

-----------------------------------------------------------------------------
(* A deletion running while the ingestion of the same document is in flight: *)
(* DocumentIngestor.ingest from its storage stage on, and                    *)
(* delete_document_vectors(document_id), over one vector index and one       *)
(* backend.  The ingestion stores n nodes, whose vectors are numbered 1..n.  *)

\* receive_worker_status for a report of the ingestion with `n` chunks, the
\* backend holding the number of stored chunks; save_chunks does not look for
\* the document record
ReceiveIngestionStatus(b, status, n, error, save_ok) ==
    LET updated == IF b.exists
                   THEN [b EXCEPT !.status = BackendStatus(status),
                                  !.error_message = IF error # "" THEN error ELSE @]
                   ELSE b
    IN IF status = "completed" /\ n > 0 /\ save_ok
       THEN [updated EXCEPT !.chunks = @ + n]
       ELSE updated

\* one POST of the ingestion to /worker/status
IngestionReported(c, status, n, error, handled, save_ok) ==
    [c EXCEPT !.backend = IF handled
                          THEN ReceiveIngestionStatus(@, status, n, error, save_ok)
                          ELSE @,
              !.unhandled = @ \/ ~handled \/ ~save_ok]

\* one call of report_deletion_status_to_backend
DeletionReported(c, status, error, handled) ==
    [c EXCEPT !.backend = IF handled THEN ReceiveDeletionStatus(@, status, error) ELSE @,
              !.unhandled = @ \/ ~handled,
              !.completed_handled = @ \/ (handled /\ status = "deletion_completed")]

InitConcurrent ==
    /\ TaskIdle
    /\ hb = HbIdle /\ md = MdIdle /\ rq = RqIdle /\ qa = QaIdle /\ dl = DlIdle /\ be = BeIdle
    /\ rl = RlIdle /\ dr = DrIdle /\ cv = CvIdle
    /\ \E n \in 1..MaxDocs, status \in {"PROCESSING", "DELETING"} :
          cc = [ing |-> "storage", del |-> "start", n |-> n, index |-> {}, ids |-> {},
                backend |-> [exists |-> TRUE, status |-> status, chunks |-> 0,
                             error_message |-> ""],
                exc |-> "", del_exc |-> "",
                unhandled |-> FALSE, completed_handled |-> FALSE]

\* ingest: start_stage("storage") and its report
CcStartStorage ==
    /\ cc.ing = "storage"
    /\ \E handled \in BOOLEAN :
          cc' = IngestionReported([cc EXCEPT !.ing = "pipeline"],
                                  "processing", 0, "", handled, TRUE)
    /\ UNCHANGED <<task, hb, md, rq, qa, dl, be, rl, dr, cv>>

\* ingest: pipeline.run embeds the nodes and upserts their vectors;
\* complete_stage("storage") and its report
CcPipelineRun ==
    /\ cc.ing = "pipeline"
    /\ \E handled \in BOOLEAN :
          cc' = IngestionReported([cc EXCEPT !.ing = "store_metadata",
                                             !.index = @ \cup (1..cc.n)],
                                  "processing", 0, "", handled, TRUE)
    /\ UNCHANGED <<task, hb, md, rq, qa, dl, be, rl, dr, cv>>

\* ingest: pipeline.run raises before any vector is written
CcPipelineRunRaises ==
    /\ cc.ing = "pipeline"
    /\ cc' = [cc EXCEPT !.ing = "except", !.exc = "pipeline failed"]
    /\ UNCHANGED <<task, hb, md, rq, qa, dl, be, rl, dr, cv>>

\* _store_metadata_in_backend: the chunk payload is posted and answered 200
CcStoreMetadata ==
    /\ cc.ing = "store_metadata"
    /\ \E save_ok \in BOOLEAN :
          cc' = IngestionReported([cc EXCEPT !.ing = "complete"],
                                  "completed", cc.n, "", TRUE, save_ok)
    /\ UNCHANGED <<task, hb, md, rq, qa, dl, be, rl, dr, cv>>

\* _send_chunks_to_backend: the post fails or is not answered 200, and the
\* except clause re-raises
CcStoreMetadataRaises ==
    /\ cc.ing = "store_metadata"
    /\ \E handled \in BOOLEAN, save_ok \in BOOLEAN :
          cc' = IngestionReported([cc EXCEPT !.ing = "except",
                                             !.exc = "Backend API error"],
                                  "completed", cc.n, "", handled, save_ok)
    /\ UNCHANGED <<task, hb, md, rq, qa, dl, be, rl, dr, cv>>

\* ingest: send_final_progress_update("completed", chunks): the progress
\* report, then the status report with the chunks
CcIngestComplete ==
    /\ cc.ing = "complete"
    /\ \E h1 \in BOOLEAN, h2 \in BOOLEAN, save_ok \in BOOLEAN :
          cc' = IngestionReported(
                    IngestionReported([cc EXCEPT !.ing = "done"],
                                      "processing", 0, "", h1, TRUE),
                    "completed", cc.n, "", h2, save_ok)
    /\ UNCHANGED <<task, hb, md, rq, qa, dl, be, rl, dr, cv>>

\* ingest: the except clause, send_final_progress_update("failed", error)
CcIngestExcept ==
    /\ cc.ing = "except"
    /\ \E h1 \in BOOLEAN, h2 \in BOOLEAN :
          cc' = IngestionReported(
                    IngestionReported([cc EXCEPT !.ing = "done"],
                                      "processing", 0, "", h1, TRUE),
                    "failed", 0, cc.exc, h2, TRUE)
    /\ UNCHANGED <<task, hb, md, rq, qa, dl, be, rl, dr, cv>>

\* delete_document_vectors: the index is opened and the first report sent
CcDeleteConnect ==
    /\ cc.del = "start"
    /\ \E handled \in BOOLEAN :
          cc' = DeletionReported([cc EXCEPT !.del = "query"], "deleting", "", handled)
    /\ UNCHANGED <<task, hb, md, rq, qa, dl, be, rl, dr, cv>>

\* delete_document_vectors: index.query with the document_id filter; the ids
\* of the vectors the index holds at this moment
CcDeleteQuery ==
    /\ cc.del = "query"
    /\ cc' = [cc EXCEPT !.del = IF cc.index # {} THEN "loop" ELSE "complete",
                        !.ids = cc.index]
    /\ UNCHANGED <<task, hb, md, rq, qa, dl, be, rl, dr, cv>>

\* delete_document_vectors: index.query raises
CcDeleteQueryRaises ==
    /\ cc.del = "query"
    /\ cc' = [cc EXCEPT !.del = "except", !.del_exc = "query failed"]
    /\ UNCHANGED <<task, hb, md, rq, qa, dl, be, rl, dr, cv>>

\* delete_document_vectors: index.delete(ids=batch) for the one batch the ids
\* make, and the progress report
CcDeleteBatch ==
    /\ cc.del = "loop"
    /\ \E handled \in BOOLEAN :
          cc' = DeletionReported([cc EXCEPT !.del = "complete",
                                            !.index = @ \ cc.ids],
                                 "deleting", "", handled)
    /\ UNCHANGED <<task, hb, md, rq, qa, dl, be, rl, dr, cv>>

\* delete_document_vectors: the report of the completion, and the return
CcDeleteCompleted ==
    /\ cc.del = "complete"
    /\ \E handled \in BOOLEAN :
          cc' = DeletionReported([cc EXCEPT !.del = "returned"],
                                 "deletion_completed", "", handled)
    /\ UNCHANGED <<task, hb, md, rq, qa, dl, be, rl, dr, cv>>

\* delete_document_vectors: the except branch and its failure report
CcDeleteExcept ==
    /\ cc.del = "except"
    /\ \E handled \in BOOLEAN :
          cc' = DeletionReported([cc EXCEPT !.del = "returned"],
                                 "deletion_failed", cc.del_exc, handled)
    /\ UNCHANGED <<task, hb, md, rq, qa, dl, be, rl, dr, cv>>

NextConcurrent ==
    \/ CcStartStorage
    \/ CcPipelineRun
    \/ CcPipelineRunRaises
    \/ CcStoreMetadata
    \/ CcStoreMetadataRaises
    \/ CcIngestComplete
    \/ CcIngestExcept
    \/ CcDeleteConnect
    \/ CcDeleteQuery
    \/ CcDeleteQueryRaises
    \/ CcDeleteBatch
    \/ CcDeleteCompleted
    \/ CcDeleteExcept

SpecConcurrent == InitConcurrent /\ [][NextConcurrent]_vars

-----------------------------------------------------------------------------
(* One conversation session and two POST /query/enhanced requests that name  *)
(* it.  Each request is a coroutine of the backend; another one may run at   *)
(* every await.  The messages collection is kept in the order of the         *)
(* timestamps add_message gives, which is the order of its calls.            *)

\* the requests being handled
Queries == {"q1", "q2"}

\* result["answer"] of process_query for the query
AnswerTo(query) == "answer to " \o query

\* the messages of `k` earlier turns of the session
EarlierMessages(k) ==
    [i \in 1..(2 * k) |->
        IF i % 2 = 1 THEN [role |-> "user", content |-> "earlier"]
        ELSE [role |-> "assistant", content |-> AnswerTo("earlier")]]

\* ConversationService.get_recent_messages(session_id, count): the last
\* `count` messages by timestamp, in chronological order
GetRecentMessages(messages, count) ==
    IF Len(messages) <= count THEN messages
    ELSE SubSeq(messages, Len(messages) - count + 1, Len(messages))

\* add_message: insert_one into the messages collection
InsertMessage(c, role, content) ==
    [c EXCEPT !.messages = Append(@, [role |-> role, content |-> content])]

\* add_message: update_one with $inc on the session's message_count
IncMessageCount(c) == [c EXCEPT !.session.message_count = @ + 1]

InitConversation ==
    /\ TaskIdle
    /\ hb = HbIdle /\ md = MdIdle /\ rq = RqIdle /\ qa = QaIdle /\ dl = DlIdle /\ be = BeIdle
    /\ rl = RlIdle /\ dr = DrIdle /\ cc = CcIdle
    /\ \E k \in {0, 1}, title \in {"Conversation: earlier", "custom"} :
          cv = [session |-> [message_count |-> 2 * k, title |-> title],
                messages |-> EarlierMessages(k),
                before |-> 2 * k,
                q |-> [x \in Queries |->
                         [step |-> "request", conversation_history |-> <<>>,
                          answer |-> "", response |-> 0]]]

\* enhanced_query: the session_id is given; get_recent_messages(count=10)
CvGetRecentMessages(x) ==
    /\ cv.q[x].step = "request"
    /\ cv' = [cv EXCEPT !.q[x].step = "process_query",
                        !.q[x].conversation_history = GetRecentMessages(cv.messages, 10)]
    /\ UNCHANGED <<task, hb, md, rq, qa, dl, be, rl, dr, cc>>

\* enhanced_query: qa_graph_service.process_query returns its result
CvProcessQuery(x) ==
    /\ cv.q[x].step = "process_query"
    /\ cv' = [cv EXCEPT !.q[x].step = "add_user", !.q[x].answer = AnswerTo(x)]
    /\ UNCHANGED <<task, hb, md, rq, qa, dl, be, rl, dr, cc>>

\* enhanced_query: an await raises and the request is answered 500
CvRaises(x) ==
    /\ cv.q[x].step \in {"request", "process_query", "add_user", "add_assistant", "title"}
    /\ cv' = [cv EXCEPT !.q[x].step = "done", !.q[x].response = 500]
    /\ UNCHANGED <<task, hb, md, rq, qa, dl, be, rl, dr, cc>>

\* add_message(role="user", content=request.query): the insert
CvAddUserMessage(x) ==
    /\ cv.q[x].step = "add_user"
    /\ cv' = [InsertMessage(cv, "user", x) EXCEPT !.q[x].step = "count_user"]
    /\ UNCHANGED <<task, hb, md, rq, qa, dl, be, rl, dr, cc>>

\* add_message(role="user"): the update of the session
CvCountUserMessage(x) ==
    /\ cv.q[x].step = "count_user"
    /\ cv' = [IncMessageCount(cv) EXCEPT !.q[x].step = "add_assistant"]
    /\ UNCHANGED <<task, hb, md, rq, qa, dl, be, rl, dr, cc>>

\* add_message(role="assistant", content=result["answer"]): the insert
CvAddAssistantMessage(x) ==
    /\ cv.q[x].step = "add_assistant"
    /\ cv' = [InsertMessage(cv, "assistant", cv.q[x].answer) EXCEPT
                 !.q[x].step = "count_assistant"]
    /\ UNCHANGED <<task, hb, md, rq, qa, dl, be, rl, dr, cc>>

\* add_message(role="assistant"): the update of the session
CvCountAssistantMessage(x) ==
    /\ cv.q[x].step = "count_assistant"
    /\ cv' = [IncMessageCount(cv) EXCEPT !.q[x].step = "title"]
    /\ UNCHANGED <<task, hb, md, rq, qa, dl, be, rl, dr, cc>>

\* enhanced_query: get_session, update_session_title for a generic title, the
\* sources, and the response
CvRespond(x) ==
    /\ cv.q[x].step = "title"
    /\ cv' = [cv EXCEPT !.q[x].step = "done", !.q[x].response = 200,
                        !.session.title = IF cv.session.title = "custom" THEN @
                                          ELSE "Conversation: " \o x]
    /\ UNCHANGED <<task, hb, md, rq, qa, dl, be, rl, dr, cc>>

NextConversation ==
    \E x \in Queries :
        \/ CvGetRecentMessages(x)
        \/ CvProcessQuery(x)
        \/ CvRaises(x)
        \/ CvAddUserMessage(x)
        \/ CvCountUserMessage(x)
        \/ CvAddAssistantMessage(x)
        \/ CvCountAssistantMessage(x)
        \/ CvRespond(x)

SpecConversation == InitConversation /\ [][NextConversation]_vars

-----------------------------------------------------------------------------
(* Reading the log of reports *)

\* the reports that carry stage_progress and total_progress
CarriesProgress(r) == r.kind \in {"progress", "status"}
ProgressLog == SelectSeq(reports, CarriesProgress)

\* the final status reports: report_status_to_backend with completed or failed
IsFinalStatus(r) == r.kind = "status" /\ r.status \in {"completed", "failed"}

\* the reports sent by start_stage, complete_stage and update_stage_progress
IsStartReport(r) == r.kind = "progress" /\ r.message = "Started"
IsCompleteReport(r) == r.kind = "progress" /\ r.message = "Completed"
IsUpdateReport(r) ==
    r.kind = "progress" /\ r.message \notin {"Started", "Completed", "Document processing"}

\* position of a stage in parsing, chunking, embedding, storage (0: none of them)
StageRank(s) ==
    IF s \in StageNames THEN CHOOSE i \in 1..Len(Stages) : Stages[i] = s ELSE 0

\* the weighted sum of the stage weights for an object whose started stages are
\* `started`, whose current stage is `current` at `sp` percent
WeightedSum(started, current, sp) ==
    LET done == (started \cap StageNames) \ {current}
        full == SumWeights(done)
        w == IF current \in started \cap StageNames THEN stage_weights[current] ELSE 0
    IN Frac(full * 100 * sp.d + w * sp.n, 100 * sp.d)

-----------------------------------------------------------------------------
(* Claims *)

\* C1: within one ingestion task the total_progress carried by successive
\* reports never decreases.
C1_TotalProgressNeverDecreases ==
    \A i \in 1..(Len(ProgressLog) - 1) :
        FracLeq(ProgressLog[i].total_progress, ProgressLog[i + 1].total_progress)

\* C2: in every successful ingest run total_progress is exactly 100 after
\* complete_stage("storage"), on the structured-parser path and on the
\* external-reader path.
C2_HundredAfterStorage ==
    /\ \A i \in 1..Len(reports) :
          (IsCompleteReport(reports[i]) /\ reports[i].stage = "storage")
              => reports[i].total_progress = Hundred
    /\ result.kind = "returned" => pm.total_progress = Hundred

\* C3: the stage named in successive progress reports follows the order
\* parsing, chunking, embedding, storage: each stage is entered at most once,
\* no report names a stage earlier than one already reported, and once a stage
\* has failed no later stage is started.
C3_StagesForwardOnly ==
    /\ \A i, j \in 1..Len(reports) :
          (i < j /\ IsStartReport(reports[i]) /\ IsStartReport(reports[j]))
              => reports[i].stage # reports[j].stage
    /\ \A i, j \in 1..Len(reports) :
          (i < j /\ reports[i].kind = "progress" /\ reports[j].kind = "progress"
                 /\ reports[i].stage \in StageNames /\ reports[j].stage \in StageNames)
              => StageRank(reports[i].stage) <= StageRank(reports[j].stage)
    /\ \A i, j \in 1..Len(reports) :
          (i < j /\ reports[i].kind = "status" /\ reports[i].status = "failed")
              => ~IsStartReport(reports[j])

\* C4: every ingestion task emits exactly one final status report (completed
\* or failed), and that report is the last report of the task.
C4_ExactlyOneFinalStatus ==
    pc = "done" =>
        /\ Cardinality({i \in 1..Len(reports) : IsFinalStatus(reports[i])}) = 1
        /\ IsFinalStatus(reports[Len(reports)])

\* C5: a failed or rejected post to the status endpoint is swallowed for every
\* report the worker sends: it never raises to the caller and never turns the
\* task into a failed one.
C5_ReportFailureSwallowed ==
    /\ exc # "Backend API error"
    /\ (pc = "done" /\ result.kind = "raised")
          => exc \in {"ParseError", "ReadError", "Unsupported file type", "SplitError",
                      "EmbeddingError", "UpsertError", "FileNotFoundError"}

\* C6: at the end of every ingest run either the document's vectors are in the
\* index, its chunks are persisted and it is reported completed, or it is
\* reported failed and none of its vectors or chunks are stored.
C6_NoPartialIngestion ==
    (pc = "done" /\ result.kind \in {"returned", "raised"} /\ ~dropped) =>
        \/ /\ result.kind = "returned"
           /\ reports[Len(reports)].status = "completed"
           /\ EntryIds \subseteq vectors
           /\ embedded # <<>> => backend.chunks # <<>>
        \/ /\ result.kind = "raised"
           /\ reports[Len(reports)].status = "failed"
           /\ vectors = {}
           /\ backend.chunks = <<>>

\* C7: in every report that carries total_progress, total_progress is 100
\* times the weighted sum of the stage weights: the stages started before the
\* current one count in full, the current stage counts weight x
\* stage_progress/100, the stages not started count 0.
C7_TotalProgressIsWeightedSum ==
    \A i \in 1..Len(ProgressLog) :
        ProgressLog[i].total_progress =
            WeightedSum(ProgressLog[i].started, ProgressLog[i].at_stage,
                        ProgressLog[i].stage_progress)

\* a report sent half way through the embedding stage, after parsing and
\* chunking: 20 + 30 + 30 x 50/100
C7_Witness ==
    \E i \in 1..Len(ProgressLog) :
        /\ ProgressLog[i].at_stage = "embedding"
        /\ ProgressLog[i].started = {"parsing", "chunking", "embedding"}
        /\ ProgressLog[i].stage_progress = Frac(50, 1)
        /\ ProgressLog[i].total_progress = Frac(65, 1)

\* the steps that are one call of update_stage_progress
UpdateStageProgressCalls ==
    \/ LlmsherpaBegin \/ LlmsherpaParsed
    \/ ChunkerStart \/ ChunkerDocument \/ ChunkerLevel \/ ChunkerNode
    \/ ChunkerNodeRaises \/ ChunkerEnd
    \/ VectorStoreAddStart \/ VectorStoreAddNode
    \/ VectorStoreUpsertStart \/ VectorStoreUpsert

\* what every call of update_stage_progress does whatever total is: it sends
\* exactly one report, which names the current stage and carries the object's
\* stage_progress and total_progress, and total_progress is the weighted sum
UpdateStageProgressReports ==
    LET r == reports'[Len(reports')]
    IN /\ Len(reports') = Len(reports) + 1
       /\ SubSeq(reports', 1, Len(reports)) = reports
       /\ IsUpdateReport(r)
       /\ r.stage = pm.current_stage
       /\ pm'.current_stage = pm.current_stage
       /\ r.stage_progress = pm'.stage_progress
       /\ r.total_progress = pm'.total_progress
       /\ r.total > 0 => pm'.stage_progress = Frac(r.current * 100, r.total)
       /\ pm'.total_progress = WeightedSum(pm'.stage_start_times, pm'.current_stage,
                                           pm'.stage_progress)

\* C8 as stated: update_stage_progress(message, current, total) sets
\* stage_progress to current/total*100 when total > 0 and to 0 when total = 0,
\* recomputes total_progress from the new value and emits exactly one report.
C8_AsStated ==
    [][UpdateStageProgressCalls =>
          /\ UpdateStageProgressReports
          /\ reports'[Len(reports')].total = 0 => pm'.stage_progress = Zero]_vars

\* C8, amended: update_stage_progress(message, current, total) sets
\* stage_progress to current/total*100 and recomputes total_progress when
\* total > 0; when total = 0 it leaves stage_progress and total_progress as
\* they were and only the report's progress field is 0; either way it emits
\* exactly one report.
C8_UpdateStageProgress ==
    [][UpdateStageProgressCalls =>
          /\ UpdateStageProgressReports
          /\ reports'[Len(reports')].total = 0 =>
                /\ pm' = pm
                /\ reports'[Len(reports')].progress = 0]_vars

\* an update with total = 0 was sent while stage_progress was not 0
C8_Witness ==
    \E i \in 1..Len(reports) :
        /\ IsUpdateReport(reports[i])
        /\ reports[i].total = 0
        /\ reports[i].progress = 0
        /\ reports[i].stage_progress = Hundred

\* the steps that are one call of send_final_progress_update
SendFinalProgressUpdateCalls == LlmsherpaExcept \/ IngestExcept \/ IngestComplete

\* what every call of send_final_progress_update does: exactly two reports,
\* a progress report and then the final status report, which carries the
\* chunks when completed and the error string when failed
FinalProgressUpdateReports ==
    LET n == Len(reports)
        first == reports'[n + 1]
        second == reports'[n + 2]
    IN /\ Len(reports') = n + 2
       /\ SubSeq(reports', 1, n) = reports
       /\ first.kind = "progress"
       /\ first.chunks = <<>>
       /\ second.kind = "status"
       /\ second.status \in {"completed", "failed"}
       /\ first.stage = second.status
       /\ second.status = "completed" =>
             /\ second.chunks = PrepareChunksForCompletion
             /\ second.error = "None"
       /\ second.status = "failed" =>
             /\ second.chunks = <<>>
             /\ second.error \in {exc, "LLMSherpa ingestion failed: " \o exc}

\* C9 as stated: send_final_progress_update emits exactly two reports, first a
\* progress report whose progress is 100 when status is completed and 0 when
\* it is failed, then the final status report with the chunks or the error.
C9_AsStated ==
    [][SendFinalProgressUpdateCalls =>
          /\ FinalProgressUpdateReports
          /\ reports'[Len(reports) + 1].progress =
                IF reports'[Len(reports) + 2].status = "completed" THEN 100 ELSE 0]_vars

\* C9, amended: send_final_progress_update emits exactly two reports, first a
\* progress report whose progress is 100 whether the status is completed or
\* failed, then the final status report, whose own progress is 100 when
\* completed and 0 when failed, with the chunks or the error.
C9_SendFinalProgressUpdate ==
    [][SendFinalProgressUpdateCalls =>
          /\ FinalProgressUpdateReports
          /\ reports'[Len(reports) + 1].progress = 100
          /\ reports'[Len(reports) + 2].progress =
                IF reports'[Len(reports) + 2].status = "completed" THEN 100 ELSE 0]_vars

\* a failed run whose last two reports are the progress report at 100 and
\* the final status report with the error
C9_Witness ==
    /\ pc = "done"
    /\ result.kind = "raised"
    /\ Len(reports) >= 2
    /\ reports[Len(reports) - 1].kind = "progress"
    /\ reports[Len(reports) - 1].stage = "failed"
    /\ reports[Len(reports) - 1].progress = 100
    /\ reports[Len(reports)].kind = "status"
    /\ reports[Len(reports)].status = "failed"
    /\ reports[Len(reports)].error = exc

\* C10: a successful ingest returns n, the number of chunk nodes produced, and
\* afterwards the store holds exactly n chunks of the document, with
\* chunk_index 0..n-1 each exactly once, and its chunks_count is n; a failed
\* ingest raises instead of returning a count.  (Stated for the runs in which
\* the backend handled every report of the completion sequence.)
C10_ReturnsStoredChunkCount ==
    /\ (pc = "done" /\ result.kind = "returned" /\ ~dropped) =>
          /\ Len(backend.chunks) = result.n
          /\ \A k \in 0..(result.n - 1) :
                Cardinality({i \in 1..Len(backend.chunks) :
                                backend.chunks[i].chunk_index = k}) = 1
          /\ backend.chunks_count = result.n
    /\ result.kind = "returned" => exc = ""

\* C11: of the nodes the chunker returns, a node produced at level 0 has no
\* parent, and a node produced at level L > 0 has one parent, which is a node
\* produced at level L-1, created before it, and which lists it among its
\* children.
C11_ParentOneLevelUp ==
    \A k \in 1..Len(ck.out) :
        LET n == ck.out[k]
        IN /\ n.id = k
           /\ n.level = 0 => n.parent = 0
           /\ n.level > 0 =>
                 /\ n.parent \in 1..(k - 1)
                 /\ ck.out[n.parent].level = n.level - 1
                 /\ Cardinality({j \in 1..Len(ck.out[n.parent].children) :
                                    ck.out[n.parent].children[j] = k}) = 1
           /\ \A c \in Range(n.children) :
                 c \in (k + 1)..Len(ck.out) /\ ck.out[c].parent = k

\* the chunker has returned a node of level 1 with two children of level 2
C11_Witness ==
    /\ pc = "llmsherpa_embedded"
    /\ \E k \in 1..Len(ck.out) :
          /\ ck.out[k].level = 1
          /\ Len(ck.out[k].children) = 2
          /\ \A c \in Range(ck.out[k].children) : ck.out[c].level = 2

\* C12: _recursively_get_nodes_from_nodes entered with a level at or beyond
\* the number of splitters raises ValueError before any node is processed and
\* before any progress update, without clamping the level; entered at level 0
\* by get_nodes_from_documents it never raises that error.
C12_LevelOutOfRangeFailsFast ==
    /\ exc = "ValueError" =>
          /\ ck.entry >= NumLevels
          /\ ck.level = ck.entry
          /\ reports = <<>>
          /\ ck.qi = 0
          /\ ck.out = <<>>
    /\ (ck.entry >= NumLevels /\ pc # "ck_level") => exc = "ValueError"
    /\ ck.entry < NumLevels => (exc # "ValueError" /\ ck.level < NumLevels)

\* a direct call with a level beyond the splitters has raised
C12_Witness ==
    /\ exc = "ValueError"
    /\ ck.entry = NumLevels
    /\ Len(ck.queue) > 0

\* the nodes of `out` produced at `level` from input document `origin`
NodesOf(out, origin, level) ==
    {k \in 1..Len(out) : out[k].origin = origin /\ out[k].level = level}

\* C13: the list get_nodes_from_documents returns holds, document by document
\* in input order, the sub-nodes of level 0, then those of each deeper level
\* in turn; every sub-node the splitters produced is in it exactly once, the
\* parents alongside their children, and the nodes of the last level have no
\* children.
C13_OutputIsAllLevelsInOrder ==
    (pc = "pipeline_embed" /\ ret = "none") =>
        /\ \A i, j \in 1..Len(ck.out) :
              i < j => \/ ck.out[i].origin < ck.out[j].origin
                       \/ /\ ck.out[i].origin = ck.out[j].origin
                          /\ ck.out[i].level <= ck.out[j].level
        /\ \A i, j \in 1..Len(ck.out) : ck.out[i].id = ck.out[j].id => i = j
        /\ \A d \in 1..Len(ck.docs) :
              Cardinality(NodesOf(ck.out, d, 0)) =
                 Len(SplitSizes(ck.docs[d], chunk_sizes[1]))
        /\ \A k \in 1..Len(ck.out) :
              LET n == ck.out[k]
              IN /\ n.origin \in 1..Len(ck.docs)
                 /\ n.level \in 0..(NumLevels - 1)
                 /\ n.level = NumLevels - 1 => n.children = <<>>
                 /\ n.level < NumLevels - 1 =>
                       /\ Len(n.children) = Len(SplitSizes(n.size, chunk_sizes[n.level + 2]))
                       /\ \A a, b \in 1..Len(n.children) :
                             a < b => n.children[a] < n.children[b]
                       /\ \A c \in Range(n.children) :
                             /\ c \in 1..Len(ck.out)
                             /\ ck.out[c].level = n.level + 1
                             /\ ck.out[c].origin = n.origin

\* two documents were chunked, the second into nodes of all three levels with
\* two nodes at the last one, and the list was returned
C13_Witness ==
    /\ pc = "pipeline_embed"
    /\ ret = "none"
    /\ Len(ck.docs) = 2
    /\ NodesOf(ck.out, 1, 0) # {}
    /\ Cardinality(NodesOf(ck.out, 2, NumLevels - 1)) = 2

\* how often the block counted as block_index `bi` occurs in a list
Occurrences(q, bi) == Cardinality({k \in 1..Len(q) : q[k].block_index = bi})

\* C14: block classification is a stable partition: every block is in exactly
\* one of the five groups, the one of its block_type (any other or missing
\* type: other), each group keeps the input order, nothing is dropped or
\* duplicated, and classifying the same list again gives the same groups.
C14_ClassificationIsStablePartition ==
    hb.step \in {"grouped", "built", "regrouped"} =>
        /\ \A k \in 1..Len(hb.blocks) :
              LET b == hb.blocks[k]
                  home == CASE b.block_type = "header" -> "headers"
                            [] b.block_type = "paragraph" -> "paragraphs"
                            [] b.block_type = "table" -> "tables"
                            [] b.block_type = "list_item" -> "lists"
                            [] OTHER -> "other"
              IN \A c \in Range(Categories) :
                    Occurrences(hb.groups[c], b.block_index) = IF c = home THEN 1 ELSE 0
        /\ \A c \in Range(Categories) :
              /\ \A k \in 1..Len(hb.groups[c]) : hb.groups[c][k] \in Range(hb.blocks)
              /\ \A i, j \in 1..Len(hb.groups[c]) :
                    i < j => hb.groups[c][i].block_index < hb.groups[c][j].block_index
        /\ hb.step = "regrouped" => hb.again = hb.groups

\* three blocks were classified twice: one of an unknown type between two
\* paragraphs
C14_Witness ==
    /\ hb.step = "regrouped"
    /\ Len(hb.blocks) = 3
    /\ hb.blocks[1].block_type = "paragraph"
    /\ hb.blocks[2].block_type \in {"text", "missing"}
    /\ hb.blocks[3].block_type = "paragraph"
    /\ Len(hb.groups["paragraphs"]) = 2
    /\ Len(hb.groups["other"]) = 1

\* C15: the hierarchy builder emits exactly one unit per input block; the
\* unit's level and importance are those of its content type: header (0, 0.9),
\* paragraph (1, 0.7), table (1, 0.8), list_item (2, 0.6), other (3, 0.5);
\* every unit carries the document_id; one header and two paragraphs give the
\* levels [0,1,1] and the importances [0.9,0.7,0.7].
C15_OneUnitPerBlock ==
    hb.step \in {"built", "regrouped"} =>
        /\ Len(hb.documents) = Len(hb.blocks)
        /\ \A k \in 1..Len(hb.blocks) :
              /\ Occurrences(hb.documents, hb.blocks[k].block_index) = 1
              /\ \A d \in 1..Len(hb.documents) :
                    hb.documents[d].block_index = hb.blocks[k].block_index =>
                        hb.documents[d].content_type =
                            IF hb.blocks[k].block_type \in {"header", "paragraph", "table", "list_item"}
                            THEN hb.blocks[k].block_type ELSE "other"
        /\ \A d \in 1..Len(hb.documents) :
              LET doc == hb.documents[d]
              IN /\ doc.document_id = "doc-1"
                 /\ <<doc.hierarchical_level, doc.importance_score>> =
                       CASE doc.content_type = "header" -> <<0, 9>>
                         [] doc.content_type = "paragraph" -> <<1, 7>>
                         [] doc.content_type = "table" -> <<1, 8>>
                         [] doc.content_type = "list_item" -> <<2, 6>>
                         [] OTHER -> <<3, 5>>
        /\ [k \in 1..Len(hb.blocks) |-> hb.blocks[k].block_type]
              = <<"header", "paragraph", "paragraph">> =>
              /\ [d \in 1..3 |-> hb.documents[d].hierarchical_level] = <<0, 1, 1>>
              /\ [d \in 1..3 |-> hb.documents[d].importance_score] = <<9, 7, 7>>

\* the units of one header and two paragraphs were built
C15_Witness ==
    /\ hb.step = "built"
    /\ [k \in 1..Len(hb.blocks) |-> hb.blocks[k].block_type]
          = <<"header", "paragraph", "paragraph">>
    /\ Len(hb.documents) = 3

\* what C16 says of the keys and values of the returned metadata
FilteredKeysAndValues ==
    \A k \in 1..Len(md.filtered) :
        /\ md.filtered[k].key \in {"document_id", "content_type", "hierarchical_level",
                                   "chunk_id"}
        /\ md.filtered[k].chars <= 50
        /\ \A j \in 1..Len(md.filtered) : md.filtered[j].key = md.filtered[k].key => j = k

LastTurns(history) ==
    LET n == Len(history)
        m == IF n < 4 THEN n ELSE 4
    IN [k \in 1..m |-> history[n - m + k]]

\* the 'Previous question/answer' fragment of one user or assistant turn
FragmentOf(message) ==
    (IF message.role = "user" THEN "Previous question: " ELSE "Previous answer: ")
    \o message.content

\* C17: for a history of n turns with roles user or assistant the rewritten
\* query is the original query followed by one bracketed context suffix
\* holding exactly min(n, 4) 'Previous question/answer' fragments, those of the
\* last min(n, 4) turns in chronological order; with an empty history the
\* query is returned unchanged.
C17_RewriteUsesLastFourTurns ==
    (/\ rq.step = "rewritten"
     /\ \A k \in 1..Len(rq.history) : rq.history[k].role \in {"user", "assistant"}) =>
        IF rq.history = <<>>
        THEN rq.enhanced = rq.query
        ELSE LET turns == LastTurns(rq.history)
                 fragments == [k \in 1..Len(turns) |-> FragmentOf(turns[k])]
             IN /\ Len(fragments) = (IF Len(rq.history) < 4 THEN Len(rq.history) ELSE 4)
                /\ rq.enhanced = rq.query \o " [Context from conversation: "
                                          \o JoinSpace(fragments) \o "]"

\* a history of five user and assistant turns was rewritten and the first
\* turn, which differs from all later ones, was left out
C17_Witness ==
    /\ rq.step = "rewritten"
    /\ Len(rq.history) = 5
    /\ \A k \in 1..5 : rq.history[k].role \in {"user", "assistant"}
    /\ \A k \in 2..5 : rq.history[k] # rq.history[1]
    /\ rq.enhanced # rq.query

\* C18: in conversation-aware retrieval, if embedding generation for the
\* rewritten query fails (by error or by empty result) the embedding is retried
\* once with the original query, and if that also fails the retrieval returns an
\* empty result set instead of raising.
C18_EmbeddingFallback ==
    (/\ rq.step \in {"query", "enrich", "rerank", "returned", "raised"}
     /\ rq.history # <<>>
     /\ rq.attempts # <<>>
     /\ rq.attempts[1].outcome \in {"error", "empty"}) =>
        /\ Len(rq.attempts) = 2
        /\ rq.attempts[2].text = rq.query
        /\ rq.attempts[2].outcome \in {"error", "empty"} =>
              rq.step = "returned" /\ rq.results = <<>>

\* a candidate whose document exists and whose chunk index resolves in the
\* document's persisted chunk list
Resolves(match) ==
    /\ match.document_id = "d1"
    /\ match.chunk_index \in 0..(Len(PersistedChunks) - 1)

\* C19: after enrichment the result set holds exactly the candidates whose
\* document exists and whose chunk index resolves in that document's persisted
\* chunk list, in their original order, each carrying that chunk's persisted
\* content; a candidate with no document_id, a missing document or an
\* unresolvable chunk index is absent, and a lookup failure for one candidate
\* does not remove any other candidate.
C19_EnrichmentKeepsResolvedOnly ==
    rq.step \in {"rerank", "returned"} /\ rq.semantic # <<>> =>
        LET resolved == SelectSeq(rq.semantic, Resolves)
        IN /\ Len(rq.enriched) = Len(resolved)
           /\ \A k \in 1..Len(resolved) :
                 /\ rq.enriched[k].id = resolved[k].id
                 /\ rq.enriched[k].content = PersistedChunks[resolved[k].chunk_index + 1]

\* C20: the reranked list is the first min(top_k, n) elements of the n
\* enriched candidates sorted by non-increasing rerank score, and any two
\* candidates with equal rerank score keep their original vector-index rank
\* order.
C20_RerankIsStableTopK ==
    rq.step = "returned" /\ rq.history # <<>> /\ rq.semantic # <<>> =>
        LET n == Len(rq.enriched)
            m == IF rq.top_k < n THEN rq.top_k ELSE n
        IN /\ Len(rq.sorted) = n
           /\ {rq.sorted[k] : k \in 1..n} = {rq.enriched[k] : k \in 1..n}
           /\ \A i, j \in 1..n :
                 i < j => \/ rq.sorted[i].score > rq.sorted[j].score
                          \/ /\ rq.sorted[i].score = rq.sorted[j].score
                             /\ rq.sorted[i].id < rq.sorted[j].id
           /\ Len(rq.results) = m
           /\ \A k \in 1..m : rq.results[k] = rq.sorted[k]

\* a rerank that had to move a later candidate forward, keep two candidates
\* of equal score in rank order and cut the list at top_k
C20_Witness ==
    /\ rq.step = "returned"
    /\ rq.history # <<>>
    /\ Len(rq.enriched) = 3
    /\ rq.top_k = 2
    /\ rq.enriched[1].score < rq.enriched[2].score
    /\ rq.enriched[2].score = rq.enriched[3].score
    /\ Len(rq.results) = 2
    /\ rq.results[1].id = 2
    /\ rq.results[2].id = 3

\* content lengths of the results, and their sum over the first p
ContentLens == [k \in 1..Len(rq.results) |-> Len(rq.results[k].content)]
RECURSIVE PrefixSum(_, _)
PrefixSum(lens, p) == IF p = 0 THEN 0 ELSE lens[p] + PrefixSum(lens, p - 1)

\* the length of the longest prefix of the results that fits the budget
LongestFit ==
    CHOOSE p \in 0..Len(rq.results) :
        /\ PrefixSum(ContentLens, p) <= rq.max_context_length
        /\ \A q \in (p + 1)..Len(rq.results) :
              PrefixSum(ContentLens, q) > rq.max_context_length

\* C21: the chunks included in the assembled context are exactly the longest
\* prefix of the ranked result list whose cumulative content length does not
\* exceed max_context_length: each is included whole, no chunk after the first
\* excluded one is included even if it would fit, and the sources list holds
\* exactly the included chunks in the same order.
C21_ContextIsLongestFittingPrefix ==
    rq.step = "assembled" =>
        /\ Len(rq.context_parts) = LongestFit
        /\ Len(rq.sources) = LongestFit
        /\ \A k \in 1..LongestFit :
              /\ rq.context_parts[k] = rq.results[k].content
              /\ rq.sources[k].id = rq.results[k].id
              /\ rq.sources[k].document_id = rq.results[k].document_id
              /\ rq.sources[k].chunk_index = rq.results[k].chunk_index

\* three chunks of equal length with a budget of two and a half chunks: the
\* first two are included (the scenario of lengths 1000, 1000, 1000 and
\* budget 2500, with 2 characters for 1000)
C21_Witness ==
    /\ rq.step = "assembled"
    /\ Len(rq.results) = 3
    /\ \A k \in 1..3 : Len(rq.results[k].content) = 2
    /\ rq.max_context_length = 5
    /\ Len(rq.context_parts) = 2
    /\ Len(rq.sources) = 2

\* C22: the character length of the context text returned by
\* get_context_for_qa, counting the separators inserted between chunks, never
\* exceeds max_context_length.
C22_ContextWithinBudget ==
    rq.step = "assembled" => Len(rq.context) <= rq.max_context_length

\* the reasoning entries a stage may append
EntriesOf(stage) ==
    IF stage = "retrieve_context"
    THEN {"Retrieved relevant document chunks", "Error retrieving context: boom"}
    ELSE IF stage = "reason_and_answer"
    THEN {"Generated answer using LLM reasoning", "Error in reasoning: boom"}
    ELSE IF stage = "validate_sources"
    THEN {"No sources available for validation", "Validated answer against sources"}
    ELSE {"Updated conversation history for session s1"}

\* C23: every process_query run executes the stages retrieve_context,
\* reason_and_answer, validate_sources, update_conversation exactly once each
\* in that order, whatever fails inside a stage, and the reasoning trace
\* returned to the caller has exactly four entries, one appended by each stage
\* in stage order.
C23_FourStagesFourEntries ==
    /\ \A k \in 1..Len(qa.executed) : k <= 4 /\ qa.executed[k] = QaStages[k]
    /\ qa.step = "done" =>
          /\ qa.executed = QaStages
          /\ Len(qa.returned.reasoning_steps) = 4
          /\ \A k \in 1..4 : qa.returned.reasoning_steps[k] \in EntriesOf(QaStages[k])

\* a run returned in which both the retrieval and the LLM call had failed
C23_Witness ==
    /\ qa.step = "done"
    /\ qa.llm_failed
    /\ qa.returned.reasoning_steps[1] = "Error retrieving context: boom"
    /\ Len(qa.returned.reasoning_steps) = 4

\* C24: if the LLM call fails, process_query does not raise: the answer
\* returned to the caller is the error message, a reasoning entry records the
\* failure, and the validate_sources and update_conversation stages still run;
\* the LLM is called at most once per query.
C24_LlmFailureIsTheAnswer ==
    /\ qa.llm_calls <= 1
    /\ qa.step = "done" /\ qa.llm_failed =>
          /\ qa.returned.answer = "Error generating answer: boom"
          /\ qa.returned.reasoning_steps[2] = "Error in reasoning: boom"
          /\ qa.executed[3] = "validate_sources"
          /\ qa.executed[4] = "update_conversation"

\* a run returned after the LLM call failed on a context with sources
C24_Witness ==
    /\ qa.step = "done"
    /\ qa.llm_failed
    /\ qa.llm_calls = 1
    /\ qa.returned.sources # <<>>

\* C25: the confidence returned by the Q&A workflow is always within [0, 1]:
\* it is the mean of the per-source vector scores clamped to that range (also
\* when scores are negative or above 1), and it is 0 when there are no sources.
C25_ConfidenceIsClampedMean ==
    qa.step = "done" =>
        LET sources == qa.returned.sources
            mean == Frac(SumScores(sources), 10 * Len(sources))
        IN /\ FracLeq(Zero, qa.returned.confidence)
           /\ FracLeq(qa.returned.confidence, Frac(1, 1))
           /\ sources = <<>> => qa.returned.confidence = Zero
           /\ sources # <<>> =>
                 qa.returned.confidence =
                     (IF FracLeq(mean, Zero) THEN Zero
                      ELSE IF FracLeq(Frac(1, 1), mean) THEN Frac(1, 1) ELSE mean)

\* C26: after a deletion of doc_id has been reported deletion_completed and
\* handled by the backend, the persistence store holds no document record and
\* no chunks for doc_id, and the vector index holds no vector whose
\* document_id is doc_id, for any number of vectors the document had.
C26_DeletionCascade ==
    dl.step = "returned" /\ dl.completed_handled =>
        /\ ~dl.backend.exists
        /\ dl.backend.chunks = 0
        /\ dl.index = {}

\* C27: when delete_document_vectors succeeds on a document with n matched
\* vectors, it deletes them in ceil(n/100) batches of at most 100 ids, each id
\* in exactly one batch, returns status success with deleted_vectors = n, and
\* its reports are in order: one 'deleting' report, one 'deleting' progress
\* report after each batch with non-decreasing progress, then one
\* 'deletion_completed' report; with n = 0 no delete call is made and exactly
\* two reports are sent.
C27_BatchesAndReports ==
    dl.step = "returned" /\ dl.result.status = "success" =>
        LET n == dl.m
            k == (n + 99) \div 100
        IN /\ Len(dl.batches) = k
           /\ \A j \in 1..k :
                 /\ dl.batches[j].lo = (IF j = 1 THEN 1 ELSE dl.batches[j - 1].hi + 1)
                 /\ dl.batches[j].lo <= dl.batches[j].hi
                 /\ dl.batches[j].hi - dl.batches[j].lo + 1 <= 100
           /\ k > 0 => dl.batches[k].hi = n
           /\ dl.result.deleted_vectors = n
           /\ Len(dl.reports) = k + 2
           /\ dl.reports[1].status = "deleting" /\ dl.reports[1].progress = 0
           /\ \A j \in 2..(k + 1) :
                 /\ dl.reports[j].status = "deleting"
                 /\ dl.reports[j - 1].progress <= dl.reports[j].progress
           /\ dl.reports[k + 2].status = "deletion_completed"
           /\ n = 0 => dl.calls = 2

\* 250 vectors were deleted in three batches, the last one of 50
C27_Witness ==
    /\ dl.step = "returned"
    /\ dl.result.status = "success"
    /\ dl.m = 250
    /\ Len(dl.batches) = 3
    /\ dl.batches[3] = [lo |-> 201, hi |-> 250]
    /\ Len(dl.reports) = 5

\* C28: if the vector-index credential or index name is missing, or any
\* vector-index call (connect, query, batch delete) fails,
\* delete_document_vectors does not raise: it returns status error with the
\* error text and deleted_vectors = 0, and its last report is
\* 'deletion_failed' carrying that error text; with missing configuration no
\* vector-index call and no 'deleting' report is made before the failure
\* report.
C28_FailureIsReturnedAndReported ==
    /\ dl.step = "except" => dl.exc # ""
    /\ dl.step = "returned" /\ dl.exc # "" =>
          /\ dl.result = [status |-> "error", deleted_vectors |-> 0, error |-> dl.exc]
          /\ dl.reports # <<>>
          /\ dl.reports[Len(dl.reports)].status = "deletion_failed"
          /\ dl.reports[Len(dl.reports)].error = dl.exc
          /\ dl.config # "ok" => dl.calls = 0 /\ Len(dl.reports) = 1

\* a batch delete failed after a first batch had gone through
C28_Witness ==
    /\ dl.step = "returned"
    /\ dl.exc = "delete failed"
    /\ Len(dl.batches) = 1
    /\ dl.result.status = "error"
    /\ dl.reports[Len(dl.reports)].status = "deletion_failed"

\* C29: when the backend receives a processing update with status completed
\* and k chunks, it sets the document's status to COMPLETED with
\* chunks_count = k in a single status update, saves exactly k chunks once
\* (plain-string chunks get chunk_index 0..k-1 in order), and sends exactly
\* one processing-complete event for the task.
C29_CompletedUpdateIsStoredOnce ==
    (/\ be.step = "done"
     /\ be.update.status = "completed"
     /\ be.update.operation_type = "processing"
     /\ be.response # "500"
     /\ ~be.save_failed) =>
        LET k == Len(be.update.chunks)
        IN /\ be.backend.status = "COMPLETED"
           /\ be.backend.chunks_count = k
           /\ be.updates = 1
           /\ be.saves = (IF k > 0 THEN 1 ELSE 0)
           /\ Len(be.backend.chunks) = k
           /\ \A j \in 1..k :
                 /\ be.backend.chunks[j].content = be.update.chunks[j].content
                 /\ be.backend.chunks[j].document_id = be.update.document_id
           /\ (\A j \in 1..k : ~be.update.chunks[j].metadata) =>
                 \A j \in 1..k : be.backend.chunks[j].chunk_index = j - 1
           /\ be.events = <<[type |-> "processing_complete", task_id |-> be.update.task_id]>>

\* a completed processing update with two plain-string chunks was handled
C29_Witness ==
    /\ be.step = "done"
    /\ be.update.status = "completed"
    /\ be.update.operation_type = "processing"
    /\ Len(be.update.chunks) = 2
    /\ \A j \in 1..2 : ~be.update.chunks[j].metadata
    /\ Len(be.backend.chunks) = 2
    /\ be.response = "success"

\* C30: if saving chunks fails while the backend handles a completed update,
\* the document's status stays COMPLETED (it is not flipped to failed), the
\* processing-complete event is still sent, and the status endpoint answers
\* success.
C30_SaveFailureKeepsCompleted ==
    /\ be.save_failed /\ be.update.operation_type = "processing" =>
          be.backend.status = "COMPLETED"
    /\ (/\ be.step = "done"
        /\ be.save_failed
        /\ be.update.operation_type = "processing") =>
          /\ be.events = <<[type |-> "processing_complete", task_id |-> be.update.task_id]>>
          /\ be.response = "success"
          /\ be.backend.chunks = <<>>

\* a completed processing update was answered after its chunks were not saved
C30_Witness ==
    /\ be.step = "done"
    /\ be.save_failed
    /\ be.update.operation_type = "processing"
    /\ be.update.chunks # <<>>
    /\ be.response = "success"

\* the nodes the chunker has produced at a split level above 0, in the
\* chunker's run and in the pipeline's
RlSubNodes ==
    {rl.nodes[i] : i \in {k \in 1..Len(rl.nodes) : rl.nodes[k].level > 0}}
    \cup {rl.embedded_nodes[i] :
             i \in {k \in 1..Len(rl.embedded_nodes) : rl.embedded_nodes[k].level > 0}}

\* C31: every sub-node produced at split level L > 0 records parent_level and
\* child_level in its metadata, with child_level = parent_level + 1; a header
\* among them has structural_importance = high, a table has
\* table_parent_context = its parent's id, a list item has list_parent = its
\* parent's id.
C31_SubNodesRecordLevels ==
    \A n \in RlSubNodes :
        /\ {"parent_level", "child_level"} \subseteq DOMAIN n.metadata
        /\ n.metadata["parent_level"].kind = "int"
        /\ n.metadata["child_level"].kind = "int"
        /\ n.metadata["child_level"].n = n.metadata["parent_level"].n + 1
        /\ Get(n.metadata, "content_type", "None") = "header" =>
              Get(n.metadata, "structural_importance", "None") = "high"
        /\ Get(n.metadata, "content_type", "None") = "table" =>
              Get(n.metadata, "table_parent_context", 0) = n.parent
        /\ Get(n.metadata, "content_type", "None") = "list_item" =>
              Get(n.metadata, "list_parent", 0) = n.parent

\* C32: every retrieval that queries the vector index asks it for exactly
\* 2 * top_k candidates (16 for the top_k = 8 of get_context_for_qa) and keeps
\* at most top_k of them, with or without conversation history.
C32_OverFetchThenKeepTopK ==
    /\ rq.step \in {"enrich", "rerank", "returned", "assembled"} /\ rq.requested # 0 =>
          rq.requested = 2 * rq.top_k
    /\ rq.step \in {"returned", "assembled"} => Len(rq.results) <= rq.top_k

\* C33: every source returned by get_context_for_qa carries a rerank score
\* equal to its vector-index score, with or without conversation history.
C33_SourcesCarryRerankScore ==
    rq.step = "assembled" =>
        \A k \in 1..Len(rq.sources) :
            rq.sources[k].cross_encoder_score = rq.sources[k].score

\* the backend's document record after it has handled each report of the
\* log, in the order the worker sent them
RECURSIVE HandledInOrder(_, _)
HandledInOrder(b, rs) ==
    IF rs = <<>> THEN <<>>
    ELSE LET b1 == ReceiveWorkerStatus(b, Head(rs), TRUE)
         IN <<b1>> \o HandledInOrder(b1, Tail(rs))

\* C34: as the backend handles the reports of one ingestion task in the order
\* the worker sends them, the document's stored status only moves forward: once
\* it is COMPLETED or FAILED it never returns to PROCESSING, and chunks_count,
\* once set to the final count, is never reset to 0.
C34_StoredStatusOnlyMovesForward ==
    LET t == HandledInOrder(NewBackend, reports)
    IN \A i, j \in 1..Len(t) :
          i < j =>
             /\ t[i].status \in {"COMPLETED", "FAILED"} => t[j].status # "PROCESSING"
             /\ t[i].chunks_count > 0 => t[j].chunks_count > 0

\* C40: every report the worker sends during one ingestion task (the initial
\* processing report, the progress reports, the chunk-payload report and the
\* final status report) carries the task_id that was passed to
\* process_document, which is the task_id the backend addresses the report's
\* event to.
C40_ReportsCarryTheTaskId ==
    \A k \in 1..Len(reports) : reports[k].task_id = pm.task_id

\* the metadata carries the block-derived values of the document `full`
BlockDerived(metadata, full) ==
    \A key \in {"content_type", "block_type", "page_number", "hierarchical_level",
                "importance_score"} :
        key \in DOMAIN metadata /\ metadata[key] = full[key]

\* C38: every chunk persisted for a document carries the block-derived
\* metadata (content type, block type, page number, hierarchical level,
\* importance score) of the block its text was split from, in both chunk
\* payloads the worker sends.
C38_ChunksCarryBlockMetadata ==
    rl.step = "completed" /\ rl.blocks # <<>> =>
        /\ \A j \in 1..Len(rl.store_chunks) :
              BlockDerived(rl.store_chunks[j].metadata,
                           rl.full_documents[rl.store_chunks[j].origin].metadata)
        /\ \A j \in 1..Len(rl.completion_chunks) :
              BlockDerived(rl.completion_chunks[j].metadata,
                           rl.full_documents[rl.completion_chunks[j].origin].metadata)

\* C36: from the moment the DELETE endpoint has marked a document DELETING
\* until the backend handles deletion_completed or deletion_failed for it, the
\* document's stored status remains DELETING, across every intermediate
\* 'deleting' report the worker sends.
C36_StaysDeletingUntilResolved ==
    (/\ dl.step # "idle"
     /\ \A k \in 1..Len(dl.reports) : dl.reports[k].status = "deleting") =>
        dl.backend.status = "DELETING"

\* C35: every DELETE request accepted for an existing document eventually
\* resolves, the queue delivering the task and the worker running it: the
\* backend removes the document or marks it delete_error, and the document
\* does not stay in DELETING forever.
C35_AcceptedDeleteResolves ==
    (dr.step = "answered" /\ dr.response = 200)
        ~> (~dr.backend.exists \/ dr.backend.status = "DELETE_ERROR")

\* C37: when a deletion runs concurrently with the ingestion of the same
\* document, then once both have finished and every report of theirs has
\* been handled, deletion_completed among them, no chunk of the document is
\* left in the backend and no vector of it in the index.
C37_NothingLeftAfterConcurrentDelete ==
    (cc.ing = "done" /\ cc.del = "returned" /\ ~cc.unhandled /\ cc.completed_handled)
        => (cc.backend.chunks = 0 /\ cc.index = {})

\* the stored messages alternate user, assistant, and each user message is
\* directly followed by the answer to it
Alternates(messages) ==
    /\ Len(messages) % 2 = 0
    /\ \A i \in 1..Len(messages) :
          IF i % 2 = 1
          THEN /\ messages[i].role = "user"
               /\ i + 1 <= Len(messages)
               /\ messages[i + 1].content = AnswerTo(messages[i].content)
          ELSE messages[i].role = "assistant"

\* C39: within one session the stored messages, ordered by time, strictly
\* alternate user, assistant, each user message directly followed by its
\* answer, also when two enhanced queries on the session are handled
\* concurrently; each handled query adds two messages and raises
\* message_count by 2.
C39_MessagesAlternate ==
    (\A x \in Queries : cv.q[x].step = "done" /\ cv.q[x].response = 200)
        => /\ Alternates(cv.messages)
           /\ Len(cv.messages) = cv.before + 2 * Cardinality(Queries)
           /\ cv.session.message_count = cv.before + 2 * Cardinality(Queries)

====
